---------------------------- MODULE RelayProofs -----------------------------
(***************************************************************************)
(* Proofs about Relay: its states are typed, a reply in the log was seen   *)
(* part by part, and Slack's messages reach the agent at most once; the    *)
(* agent has the file it can have and knows of the others, a turn gives    *)
(* one answer, and the reply is the agent's last word.                     *)
(***************************************************************************)
EXTENDS Relay, FiniteSetTheorems, TLAPS

(* A turn in the step before a post has what it is about to post.          *)
TurnReady ==
    \A t \in Turns : turn[t] # Nothing =>
        /\ turn[t].step = "refuse" => turn[t].why # Nothing
        /\ turn[t].step \in {"reply", "record"} => turn[t].reply # Nothing
        /\ turn[t].step = "reply" => turn[t].sent < turn[t].parts

TypeInv == TypeOK /\ TurnReady

-----------------------------------------------------------------------------
(* The messages of the processor's own are texts.                          *)
LEMMA TextIsTyped ==
    \A kind \in Fallbacks \cup Refusals
                \cup {"user", "unreadable", "stream_broken", "exhausted"} :
        Text(kind) \in Texts
BY DEF Text, Texts

(* What a turn tells of a run is a text.                                   *)
LEMMA ReplyIsTyped ==
    ASSUME NEW s \in Streams, NEW withFile
    PROVE  ReplyTo(s, withFile) \in Texts
<1>1. s \in Seq(Chunks)
  BY RelayAssumption DEF RelayAssumption
<1>2. DOMAIN s \subseteq Nat
  BY <1>1
<1>3. ExtractText(s) \in SUBSET Nat
  BY <1>2 DEF ExtractText, FinalParts, TextParts
<1>4. Fallback(s, withFile) \in Fallbacks
  BY DEF Fallback, Fallbacks, Errors
<1> QED
  BY <1>3, <1>4, TextIsTyped DEF ReplyTo, Texts

LEMMA MaxPartsIsPositive == MaxParts \in Nat \ {0}
BY RelayAssumption DEF RelayAssumption

(* A text is split into at least one part and at most MaxParts.            *)
LEMMA PartsAreTyped ==
    ASSUME NEW m, NEW kind, NEW n \in PostsFor(m, kind, MaxParts)
    PROVE  n \in 1 .. MaxParts
BY RelayAssumption DEF RelayAssumption, PostsFor

-----------------------------------------------------------------------------
(* A turn that changes into a typed one leaves the turns typed.            *)
LEMMA OneTurnChanges ==
    ASSUME TypeInv, NEW t \in Turns, NEW r \in TurnRecords,
           turn' = [turn EXCEPT ![t] = r],
           r.step = "refuse" => r.why # Nothing,
           r.step \in {"reply", "record"} => r.reply # Nothing,
           r.step = "reply" => r.sent < r.parts
    PROVE  turn' \in [Turns -> TurnRecords \cup {Nothing}] /\ TurnReady'
BY DEF TypeInv, TypeOK, TurnReady

(* A step of a turn that only moves on, to where nothing is about to be    *)
(* posted.                                                                 *)
LEMMA MovesOn ==
    ASSUME TypeInv, NEW t \in Turns, turn[t] # Nothing,
           NEW step \in Steps \ {"refuse", "reply", "record"}, Goto(t, step)
    PROVE  turn' \in [Turns -> TurnRecords \cup {Nothing}] /\ TurnReady'
<1> DEFINE r == [turn[t] EXCEPT !.step = step]
<1>1. turn[t] \in TurnRecords
  BY DEF TypeInv, TypeOK
<1>2. r \in TurnRecords /\ r.step = step
  BY <1>1 DEF TurnRecords
<1>3. turn' = [turn EXCEPT ![t] = r]
  BY DEF Goto
<1> QED
  BY <1>2, <1>3, OneTurnChanges

LEMMA Refuses ==
    ASSUME TypeInv, NEW t \in Turns, turn[t] # Nothing,
           NEW why \in Refusals, RefuseFor(t, why)
    PROVE  turn' \in [Turns -> TurnRecords \cup {Nothing}] /\ TurnReady'
<1> DEFINE r == [turn[t] EXCEPT !.step = "refuse", !.why = why]
<1>1. turn[t] \in TurnRecords
  BY DEF TypeInv, TypeOK
<1>2. r \in TurnRecords /\ r.step = "refuse" /\ r.why = why
  BY <1>1 DEF TurnRecords, Steps
<1>3. turn' = [turn EXCEPT ![t] = r]
  BY DEF RefuseFor
<1>4. why # Nothing
  BY RelayAssumption DEF RelayAssumption
<1> QED
  BY <1>2, <1>3, <1>4, OneTurnChanges

(* A post goes out, or raises.                                             *)
LEMMA Posts ==
    ASSUME TypeInv, NEW t \in Turns, turn[t] # Nothing, NEW text \in Texts,
           NEW next \in Steps \ {"refuse", "reply", "record"},
           Post(t, text, 1, next)
    PROVE  turn' \in [Turns -> TurnRecords \cup {Nothing}] /\ TurnReady'
<1> DEFINE post == [text |-> text, part |-> 1]
           posts == Append(turn[t].posts, post)
           r == [turn[t] EXCEPT !.posts = posts, !.step = next]
<1>1. CASE Raises(t)
  BY <1>1, MovesOn DEF Raises, Steps, Ended
<1>2. CASE turn' = [turn EXCEPT ![t].posts = Append(@, post), ![t].step = next]
  <2>1. turn[t] \in TurnRecords /\ post \in [text : Texts, part : 1 .. MaxParts]
    BY RelayAssumption DEF TypeInv, TypeOK, RelayAssumption
  <2>2. turn' = [turn EXCEPT ![t] = r]
    BY <1>2 DEF TypeInv, TypeOK
  <2>3. posts \in Seq([text : Texts, part : 1 .. MaxParts])
    BY <2>1 DEF TurnRecords
  <2> HIDE DEF posts
  <2>4. r \in TurnRecords /\ r.step = next
    BY <2>1, <2>3 DEF TurnRecords
  <2> QED
    BY <2>2, <2>4, OneTurnChanges
<1> QED
  BY <1>1, <1>2 DEF Post

-----------------------------------------------------------------------------
LEMMA InitTypeInv == Init => TypeInv
BY RelayAssumption DEF Init, TypeInv, TypeOK, TurnReady, RelayAssumption

LEMMA NewTurnIsTyped == NewTurn \in TurnRecords /\ NewTurn.step = "begin"
BY RelayAssumption
DEF NewTurn, TurnRecords, Steps, Ended, RelayAssumption

LEMMA ReceiveKeepsTypes ==
    ASSUME TypeInv, NEW m \in Messages, Receive(m)
    PROVE  TypeInv'
<1> DEFINE n == deliveries[m] + 1
<1>1. n \in 1 .. MaxDeliveries /\ <<m, n>> \in Turns
  BY RelayAssumption DEF Receive, TypeInv, TypeOK, Turns, RelayAssumption
<1>2. turn' = turn \/ turn' = [turn EXCEPT ![<<m, n>>] = NewTurn]
  BY DEF Receive
<1>3. turn' \in [Turns -> TurnRecords \cup {Nothing}] /\ TurnReady'
  <2>1. CASE turn' = turn
    BY <2>1 DEF TypeInv, TypeOK, TurnReady
  <2>2. CASE turn' = [turn EXCEPT ![<<m, n>>] = NewTurn]
    BY <1>1, <2>2, NewTurnIsTyped, OneTurnChanges
  <2> QED
    BY <1>2, <2>1, <2>2
<1>4. deliveries' \in [Messages -> 0 .. MaxDeliveries]
  BY <1>1 DEF Receive, TypeInv, TypeOK
<1>5. acked' \subseteq Messages
  BY DEF Receive, TypeInv, TypeOK
<1>6. UNCHANGED <<raw, gcs, log>>
  BY DEF Receive
<1> QED
  BY <1>3, <1>4, <1>5, <1>6 DEF TypeInv, TypeOK

(* A turn's step leaves all but the turns and the log alone, and adds to   *)
(* the log at most an entry of its own.                                    *)
LEMMA StepFrame ==
    ASSUME NEW t \in Turns, TurnStep(t) \/ InstanceLost(t)
    PROVE  /\ UNCHANGED <<raw, gcs, deliveries, acked>>
           /\ \/ log' = log
              \/ At(t, "open") /\ Record(t, "inbound", Text("user"))
              \/ /\ At(t, "record") /\ Goto(t, "done")
                 /\ Record(t, "outbound", turn[t].reply)
BY DEF TurnStep, InstanceLost, ReadProfile, FindUser, OpenConversation,
       TellUnreadable, Judge, Download, Stage,
       Refuse, Ask, RunEnds, PostReply, RecordReply, TellExhausted

LEMMA AskKeepsTypes ==
    ASSUME TypeInv, NEW t \in Turns, Ask(t)
    PROVE  turn' \in [Turns -> TurnRecords \cup {Nothing}] /\ TurnReady'
<1> DEFINE r == [turn[t] EXCEPT !.asked = Input(t), !.step = "running"]
<1>1. turn[t] # Nothing /\ turn[t] \in TurnRecords
  BY DEF Ask, At, TypeInv, TypeOK
<1>2. CASE Goto(t, "exhausted") \/ Raises(t)
  BY <1>1, <1>2, MovesOn DEF Raises, Steps, Ended
<1>3. CASE turn' = [turn EXCEPT ![t].asked = Input(t), ![t].step = "running"]
  <2>1. Event(Of(t)).words \in BOOLEAN
    <3>1. Of(t) \in Wire
      BY RelayAssumption DEF Of, Turns, TypeInv, TypeOK, RelayAssumption
    <3> QED
      BY <3>1 DEF Wire, Platforms, Event, SlackEvent, TelegramEvent,
                  GoogleChatEvent, DiscordEvent
  <2>2. Input(t) \in Inputs
    BY <2>1 DEF Input, Inputs, EventOf
  <2>3. r \in TurnRecords /\ r.step = "running"
    BY <1>1, <2>2 DEF TurnRecords, Steps
  <2>4. turn' = [turn EXCEPT ![t] = r]
    BY <1>3
  <2> QED
    BY <2>3, <2>4, OneTurnChanges
<1> QED
  BY <1>2, <1>3 DEF Ask

LEMMA RunEndsKeepsTypes ==
    ASSUME TypeInv, NEW t \in Turns, RunEnds(t)
    PROVE  turn' \in [Turns -> TurnRecords \cup {Nothing}] /\ TurnReady'
<1>1. turn[t] # Nothing /\ turn[t] \in TurnRecords
  BY DEF RunEnds, At, TypeInv, TypeOK
<1>2. CASE Goto(t, "exhausted") \/ Raises(t)
  BY <1>1, <1>2, MovesOn DEF Raises, Steps, Ended
<1>3. ASSUME NEW s \in Streams \cup {Nothing}, NEW reply \in Texts,
             NEW n \in 1 .. MaxParts,
             Tells(t, s, reply, n)
      PROVE  turn' \in [Turns -> TurnRecords \cup {Nothing}] /\ TurnReady'
  <2> DEFINE r == [turn[t] EXCEPT !.stream = s, !.reply = reply, !.parts = n,
                                  !.sent = 0, !.step = "reply"]
  <2>1. {0, n} \subseteq 0 .. MaxParts /\ 0 < n /\ "reply" \in Steps
    BY MaxPartsIsPositive DEF Steps
  <2>2. reply # Nothing
    BY RelayAssumption DEF RelayAssumption
  <2>3. turn' = [turn EXCEPT ![t] = r]
    BY <1>3 DEF Tells, TypeInv, TypeOK
  <2>4. r \in TurnRecords
    BY <1>1, <2>1 DEF TurnRecords
  <2>5. r.step = "reply" /\ r.reply # Nothing /\ r.sent < r.parts
    BY <1>1, <2>1, <2>2 DEF TurnRecords
  <2> QED
    BY <2>3, <2>4, <2>5, OneTurnChanges
<1>4. ASSUME NEW s \in Streams, NEW n \in PostsFor(Of(t),
                 ReplyTo(s, turn[t].file # Nothing).kind, MaxParts)
      PROVE  ReplyTo(s, turn[t].file # Nothing) \in Texts /\ n \in 1 .. MaxParts
  BY ReplyIsTyped, PartsAreTyped
<1>5. Text("stream_broken") \in Texts /\ 1 \in 1 .. MaxParts
  BY TextIsTyped, RelayAssumption DEF RelayAssumption
<1> QED
  <2>1. Streams \subseteq Streams \cup {Nothing}
    OBVIOUS
  <2> QED
    BY <1>2, <1>3, <1>4, <1>5, <2>1 DEF RunEnds

LEMMA PostReplyKeepsTypes ==
    ASSUME TypeInv, NEW t \in Turns, PostReply(t)
    PROVE  turn' \in [Turns -> TurnRecords \cup {Nothing}] /\ TurnReady'
<1> DEFINE part == turn[t].sent + 1
           post == [text |-> turn[t].reply, part |-> part]
           next == IF part = turn[t].parts THEN "record" ELSE "reply"
           posts == Append(turn[t].posts, post)
           r == [turn[t] EXCEPT !.posts = posts, !.sent = part, !.step = next]
<1>1. turn[t] # Nothing /\ turn[t] \in TurnRecords
  BY DEF PostReply, At, TypeInv, TypeOK
<1>2. CASE Raises(t)
  BY <1>1, <1>2, MovesOn DEF Raises, Steps, Ended
<1>3. CASE turn' = [turn EXCEPT ![t].posts = Append(@, post),
                                ![t].sent = part, ![t].step = next]
  <2>1. turn[t].reply \in Texts /\ part \in 1 .. MaxParts /\ part <= turn[t].parts
    BY <1>1, RelayAssumption
    DEF PostReply, At, TypeInv, TurnReady, TurnRecords, RelayAssumption
  <2>2. post \in [text : Texts, part : 1 .. MaxParts]
    BY <2>1
  <2>3. turn' = [turn EXCEPT ![t] = r]
    BY <1>3 DEF TypeInv, TypeOK
  <2>4. posts \in Seq([text : Texts, part : 1 .. MaxParts])
    BY <1>1, <2>2 DEF TurnRecords
  <2>5. next \in {"record", "reply"} /\ (next = "reply" => part < turn[t].parts)
    BY <1>1, <2>1, RelayAssumption DEF TurnRecords, RelayAssumption
  <2> HIDE DEF posts, next, part
  <2>6. next \in Steps /\ part \in 0 .. MaxParts
    BY <2>1, <2>5, MaxPartsIsPositive DEF Steps
  <2>7. r \in TurnRecords
    BY <1>1, <2>4, <2>6 DEF TurnRecords
  <2>8. turn[t].reply # Nothing
    BY <2>1, RelayAssumption DEF RelayAssumption
  <2>9. r.reply # Nothing /\ r.step = next /\ (r.step = "reply" => r.sent < r.parts)
    BY <1>1, <2>5, <2>8 DEF TurnRecords
  <2> QED
    BY <2>3, <2>5, <2>7, <2>9, OneTurnChanges
<1> QED
  BY <1>2, <1>3 DEF PostReply, PostPart

LEMMA DownloadKeepsTypes ==
    ASSUME TypeInv, NEW t \in Turns, Download(t) \/ Stage(t)
    PROVE  turn' \in [Turns -> TurnRecords \cup {Nothing}] /\ TurnReady'
<1>1. turn[t] # Nothing /\ turn[t] \in TurnRecords
      /\ turn[t].step \in {"download", "stage"}
  BY DEF Download, Stage, At, TypeInv, TypeOK
<1>2. CASE Goto(t, "stage")
  BY <1>1, <1>2, MovesOn DEF Steps
<1>3. CASE \E why \in Refusals : RefuseFor(t, why)
  BY <1>1, <1>3, Refuses
<1>4. CASE turn' = [turn EXCEPT ![t].tries = 1]
  <2> DEFINE r == [turn[t] EXCEPT !.tries = 1]
  <2>1. r \in TurnRecords /\ r.step \in {"download", "stage"}
    BY <1>1 DEF TurnRecords
  <2>2. turn' = [turn EXCEPT ![t] = r]
    BY <1>4
  <2> QED
    BY <2>1, <2>2, OneTurnChanges
<1>5. ASSUME NEW file \in {"uri", "bytes"},
             turn' = [turn EXCEPT ![t].file = file, ![t].step = "ask"]
      PROVE  turn' \in [Turns -> TurnRecords \cup {Nothing}] /\ TurnReady'
  <2> DEFINE r == [turn[t] EXCEPT !.file = file, !.step = "ask"]
  <2>1. r \in TurnRecords /\ r.step = "ask"
    BY <1>1 DEF TurnRecords, Steps
  <2>2. turn' = [turn EXCEPT ![t] = r]
    BY <1>5
  <2> QED
    BY <2>1, <2>2, OneTurnChanges
<1> QED
  BY <1>2, <1>3, <1>4, <1>5 DEF Download, Stage, Refusals

LEMMA TurnStepKeepsTypes ==
    ASSUME TypeInv, NEW t \in Turns, TurnStep(t) \/ InstanceLost(t)
    PROVE  turn' \in [Turns -> TurnRecords \cup {Nothing}] /\ TurnReady'
<1>1. CASE InstanceLost(t)
  BY <1>1, MovesOn DEF InstanceLost, Running, Steps, Ended
<1>2. CASE ReadProfile(t) \/ FindUser(t) \/ OpenConversation(t)
  BY <1>2, MovesOn
  DEF ReadProfile, FindUser, OpenConversation, At, Raises, Steps, Ended
<1>3. CASE TellUnreadable(t)
  BY <1>3, Posts, TextIsTyped DEF TellUnreadable, At, Steps
<1>4. CASE Judge(t)
  <2>1. turn[t] # Nothing
    BY <1>4 DEF Judge, At
  <2>2. \/ \E step \in {"ask", "download"} : Goto(t, step)
        \/ \E why \in Refusals : RefuseFor(t, why)
    BY <1>4 DEF Judge, Refusals
  <2> QED
    BY <2>1, <2>2, MovesOn, Refuses DEF Steps
<1>5. CASE Download(t) \/ Stage(t)
  BY <1>5, DownloadKeepsTypes
<1>6. CASE Refuse(t)
  <2>1. turn[t] # Nothing /\ turn[t].why \in Refusals
    BY <1>6 DEF Refuse, At, TypeInv, TypeOK, TurnReady, TurnRecords
  <2>2. Text(turn[t].why) \in Texts
    BY <2>1, TextIsTyped
  <2> QED
    BY <1>6, <2>1, <2>2, Posts DEF Refuse, Steps, Ended
<1>7. CASE Ask(t)
  BY <1>7, AskKeepsTypes
<1>8. CASE RunEnds(t)
  BY <1>8, RunEndsKeepsTypes
<1>9. CASE PostReply(t)
  BY <1>9, PostReplyKeepsTypes
<1>10. CASE RecordReply(t)
  BY <1>10, MovesOn DEF RecordReply, At, Steps, Ended
<1>11. CASE TellExhausted(t)
  BY <1>11, Posts, TextIsTyped DEF TellExhausted, At, Steps, Ended
<1> QED
  BY <1>1, <1>2, <1>3, <1>4, <1>5, <1>6, <1>7, <1>8, <1>9, <1>10, <1>11
  DEF TurnStep

(* What a step records is an entry of the log.                             *)
LEMMA LogIsTyped ==
    ASSUME TypeInv, NEW t \in Turns, TurnStep(t) \/ InstanceLost(t)
    PROVE  log' \subseteq [turn : Turns, direction : {"inbound", "outbound"},
                          text : Texts]
<1>1. ASSUME NEW text \in Texts, NEW direction \in {"inbound", "outbound"},
             Record(t, direction, text)
      PROVE  log' \subseteq [turn : Turns, direction : {"inbound", "outbound"},
                            text : Texts]
  BY <1>1 DEF Record, TypeInv, TypeOK
<1>2. At(t, "record") => turn[t].reply \in Texts
  BY DEF At, TypeInv, TypeOK, TurnReady, TurnRecords
<1> QED
  BY <1>1, <1>2, StepFrame, TextIsTyped DEF TypeInv, TypeOK

LEMMA NextKeepsTypes == TypeInv /\ [Next]_vars => TypeInv'
<1> SUFFICES ASSUME TypeInv, [Next]_vars PROVE TypeInv'
  OBVIOUS
<1>1. CASE \E m \in Messages : Receive(m)
  BY <1>1, ReceiveKeepsTypes
<1>2. CASE \E t \in Turns : TurnStep(t) \/ InstanceLost(t)
  BY <1>2, TurnStepKeepsTypes, LogIsTyped, StepFrame DEF TypeInv, TypeOK
<1>3. CASE UNCHANGED vars
  BY <1>3 DEF vars, TypeInv, TypeOK, TurnReady
<1> QED
  BY <1>1, <1>2, <1>3 DEF Next, Quiet

LEMMA TypeInvariant == Spec => []TypeInv
BY InitTypeInv, NextKeepsTypes, PTL DEF Spec

(* Every variable stays in its type, for any messages, any runs of the     *)
(* agent and any number of redeliveries.                                   *)
THEOREM TypeCorrect == Spec => []TypeOK
BY TypeInvariant, PTL DEF TypeInv

-----------------------------------------------------------------------------
(* A turn belongs to a request that was made; Slack's only to the first    *)
(* request, since the others are answered without a look.                  *)
RequestInv ==
    \A t \in Turns : turn[t] # Nothing =>
        /\ t[2] <= deliveries[t[1]]
        /\ Of(t).on = "slack" => t[2] = 1

PartsSeen(t, text, n) ==
    \A k \in 1 .. n :
        \E i \in DOMAIN turn[t].posts :
            turn[t].posts[i] = [text |-> text, part |-> k]

(* A turn has posted as many parts of its reply as it has counted; one     *)
(* that logged its reply had posted them all, and is over.                 *)
SeenInv ==
    /\ \A t \in Turns : turn[t] # Nothing =>
        /\ turn[t].step \in {"reply", "record"} =>
              PartsSeen(t, turn[t].reply, turn[t].sent)
        /\ turn[t].step = "record" => turn[t].sent = turn[t].parts
    /\ \A e \in log : e.direction = "outbound" =>
        /\ turn[e.turn] # Nothing /\ turn[e.turn].step = "done"
        /\ PartsSeen(e.turn, e.text, turn[e.turn].parts)

-----------------------------------------------------------------------------
(* Only the turn that takes a step changes, and it was under way.          *)
LEMMA OwnTurnOnly ==
    ASSUME TypeInv, NEW t \in Turns, TurnStep(t) \/ InstanceLost(t)
    PROVE  /\ turn[t] # Nothing /\ turn[t].step \notin Ended
           /\ \A u \in Turns \ {t} : turn'[u] = turn[u]
<1>1. turn[t] # Nothing /\ turn[t].step \notin Ended
  BY DEF TurnStep, InstanceLost, ReadProfile, FindUser, OpenConversation,
       TellUnreadable, Judge, Download, Stage,
         Refuse, Ask, RunEnds, PostReply, RecordReply, TellExhausted, At,
         Running, Ended
<1>2. ASSUME NEW u \in Turns \ {t}
      PROVE  turn'[u] = turn[u]
  <2> USE DEF TypeInv, TypeOK, Goto, Raises, RefuseFor, Post
  <2>1. CASE \/ InstanceLost(t) \/ RecordReply(t)
             \/ ReadProfile(t) \/ FindUser(t) \/ OpenConversation(t)
    BY <2>1 DEF InstanceLost, ReadProfile, FindUser, OpenConversation,
                RecordReply
  <2>2. CASE TellUnreadable(t) \/ Refuse(t) \/ TellExhausted(t)
    BY <2>2 DEF TellUnreadable, Refuse, TellExhausted
  <2>3. CASE Judge(t) \/ Download(t) \/ Stage(t)
    BY <2>3 DEF Judge, Download, Stage
  <2>4. CASE Ask(t) \/ RunEnds(t) \/ PostReply(t)
    BY <2>4 DEF Ask, RunEnds, Tells, PostReply, PostPart
  <2> QED
    BY <2>1, <2>2, <2>3, <2>4 DEF TurnStep
<1> QED
  BY <1>1, <1>2

LEMMA InitRequestInv == Init => RequestInv
BY DEF Init, RequestInv

LEMMA NextKeepsRequests == TypeInv /\ RequestInv /\ [Next]_vars => RequestInv'
<1> SUFFICES ASSUME TypeInv, RequestInv, [Next]_vars
             PROVE  RequestInv'
  OBVIOUS
<1>1. ASSUME NEW m \in Messages, Receive(m)
      PROVE  RequestInv'
  <2> DEFINE n == deliveries[m] + 1
  <2>1. <<m, n>> \in Turns /\ deliveries \in [Messages -> Nat]
    BY <1>1 DEF Receive, TypeInv, TypeOK, Turns
  <2>2. deliveries' = [deliveries EXCEPT ![m] = n] /\ raw' = raw
    BY <1>1 DEF Receive
  <2>3. \A t \in Turns : t[1] \in Messages /\ deliveries[t[1]] <= deliveries'[t[1]]
    BY <2>1, <2>2 DEF Turns
  <2>4. CASE turn' = turn
    BY <2>1, <2>2, <2>3, <2>4 DEF RequestInv, Of, Turns
  <2>5. CASE /\ "accepted" \in Answers(raw[m], n > 1)
             /\ turn' = [turn EXCEPT ![<<m, n>>] = NewTurn]
    <3>1. raw[m].on = "slack" => n = 1
      BY <2>1, <2>5 DEF Answers, SlackAnswers
    <3>2. n <= deliveries'[m]
      BY <2>1, <2>2
    <3>3. ASSUME NEW t \in Turns \ {<<m, n>>}
          PROVE  turn'[t] = turn[t]
      BY <2>5 DEF TypeInv, TypeOK
    <3> QED
      BY <2>1, <2>2, <2>3, <3>1, <3>2, <3>3 DEF RequestInv, Of, Turns
  <2> QED
    BY <1>1, <2>4, <2>5 DEF Receive
<1>2. ASSUME NEW t \in Turns, TurnStep(t) \/ InstanceLost(t)
      PROVE  RequestInv'
  BY <1>2, OwnTurnOnly, StepFrame DEF RequestInv, Of
<1>3. CASE UNCHANGED vars
  BY <1>3 DEF vars, RequestInv, Of
<1> QED
  BY <1>1, <1>2, <1>3 DEF Next, Quiet

(* However often Slack makes its request again, and whatever became of the *)
(* first one, its message is put to the agent at most once.                *)
THEOREM SlackIsAskedOnce == Spec => []SlackAskedOnce
<1>1. RequestInv => SlackAskedOnce
  BY DEF RequestInv, SlackAskedOnce, Of, Turns
<1> QED
  BY <1>1, TypeInvariant, InitRequestInv, NextKeepsRequests, PTL DEF Spec

-----------------------------------------------------------------------------
LEMMA InitSeenInv == Init => SeenInv
BY DEF Init, SeenInv

(* A new turn is not one that the log speaks of.                           *)
LEMMA ReceiveKeepsSeen ==
    ASSUME TypeInv, RequestInv, SeenInv, NEW m \in Messages, Receive(m)
    PROVE  SeenInv'
<1> DEFINE n == deliveries[m] + 1
<1>1. <<m, n>> \in Turns /\ deliveries[m] \in Nat
  BY DEF Receive, TypeInv, TypeOK, Turns
<1>2. turn[<<m, n>>] = Nothing
  BY <1>1 DEF RequestInv
<1>3. log' = log /\ \A e \in log : e.turn \in Turns
  BY DEF Receive, TypeInv, TypeOK
<1>4. CASE turn' = turn
  BY <1>3, <1>4 DEF SeenInv, PartsSeen
<1>5. CASE turn' = [turn EXCEPT ![<<m, n>>] = NewTurn]
  <2>1. turn'[<<m, n>>] = NewTurn /\ NewTurn.step = "begin"
    BY <1>1, <1>5 DEF NewTurn, TypeInv, TypeOK
  <2>2. \A t \in Turns \ {<<m, n>>} : turn'[t] = turn[t]
    BY <1>5 DEF TypeInv, TypeOK
  <2> QED
    BY <1>1, <1>2, <1>3, <2>1, <2>2 DEF SeenInv, PartsSeen
<1> QED
  BY <1>4, <1>5 DEF Receive

(* The part a turn posts is the next one, and joins those before it.       *)
LEMMA PostReplyCounts ==
    ASSUME TypeInv, SeenInv, NEW t \in Turns, PostReply(t),
           turn'[t].step \in {"reply", "record"}
    PROVE  /\ PartsSeen(t, turn[t].reply, turn[t].sent)'
           /\ turn'[t].step = "record" => turn'[t].sent = turn'[t].parts
<1> DEFINE part == turn[t].sent + 1
           post == [text |-> turn[t].reply, part |-> part]
<1>1. turn[t] \in TurnRecords /\ turn[t].step = "reply"
  BY DEF PostReply, At, TypeInv, TypeOK
<1>2. /\ turn'[t].posts = Append(turn[t].posts, post)
      /\ turn'[t].sent = part /\ turn'[t].reply = turn[t].reply
      /\ turn'[t].parts = turn[t].parts
      /\ turn'[t].step = "record" => part = turn[t].parts
  BY <1>1 DEF PostReply, PostPart, Raises, Goto, TypeInv, TypeOK, TurnRecords
<1>3. turn[t].sent \in Nat /\ turn[t].posts \in Seq([text : Texts, part : 1 .. MaxParts])
  BY <1>1, MaxPartsIsPositive DEF TurnRecords
<1>4. PartsSeen(t, turn[t].reply, turn[t].sent)
  BY <1>1 DEF SeenInv, PostReply, At
<1>5. ASSUME NEW k \in 1 .. part
      PROVE  \E i \in DOMAIN turn'[t].posts :
               turn'[t].posts[i] = [text |-> turn[t].reply, part |-> k]
  <2>1. CASE k = part
    <3>1. Len(turn[t].posts) + 1 \in DOMAIN turn'[t].posts
          /\ turn'[t].posts[Len(turn[t].posts) + 1] = post
      BY <1>2, <1>3
    <3> QED
      BY <2>1, <3>1
  <2>2. CASE k \in 1 .. turn[t].sent
    <3>1. PICK i \in DOMAIN turn[t].posts :
            turn[t].posts[i] = [text |-> turn[t].reply, part |-> k]
      BY <1>4, <2>2 DEF PartsSeen
    <3>2. i \in DOMAIN turn'[t].posts /\ turn'[t].posts[i] = turn[t].posts[i]
      BY <1>2, <1>3, <3>1
    <3> QED
      BY <3>1, <3>2
  <2> QED
    BY <1>3, <2>1, <2>2
<1> QED
  BY <1>2, <1>5 DEF PartsSeen

(* A turn on its way to its reply's log entry only changes as PostReply    *)
(* and RecordReply change it; one that comes to a reply starts at none.    *)
LEMMA WaysToReply ==
    ASSUME TypeInv, NEW t \in Turns, TurnStep(t) \/ InstanceLost(t),
           turn'[t].step \in {"reply", "record"}
    PROVE  PostReply(t) \/ (turn'[t].step = "reply" /\ turn'[t].sent = 0)
<1> USE DEF TypeInv, TypeOK, Goto, Raises, RefuseFor, Post
<1>1. turn[t] \in TurnRecords
  BY OwnTurnOnly
<1>2. CASE \/ InstanceLost(t) \/ RecordReply(t)
             \/ ReadProfile(t) \/ FindUser(t) \/ OpenConversation(t)
  BY <1>1, <1>2 DEF InstanceLost, ReadProfile, FindUser, OpenConversation,
                     RecordReply, TurnRecords
<1>3. CASE TellUnreadable(t) \/ Refuse(t) \/ TellExhausted(t)
  BY <1>1, <1>3 DEF TellUnreadable, Refuse, TellExhausted, TurnRecords
<1>4. CASE Judge(t) \/ Download(t) \/ Stage(t)
  BY <1>1, <1>4 DEF Judge, Download, Stage, At, TurnRecords
<1>5. CASE Ask(t)
  BY <1>1, <1>5 DEF Ask, TurnRecords
<1>6. CASE RunEnds(t)
  <2>1. ASSUME NEW s, NEW reply, NEW n, Tells(t, s, reply, n)
        PROVE  turn'[t].step = "reply" /\ turn'[t].sent = 0
    BY <1>1, <2>1 DEF Tells, TurnRecords
  <2>2. ASSUME Goto(t, "exhausted") \/ Raises(t)
        PROVE  turn'[t].step \in {"exhausted", "failed"}
    BY <1>1, <2>2 DEF TurnRecords
  <2> QED
    BY <1>6, <2>1, <2>2 DEF RunEnds
<1> QED
  BY <1>2, <1>3, <1>4, <1>5, <1>6 DEF TurnStep

LEMMA StepKeepsSeen ==
    ASSUME TypeInv, SeenInv, NEW t \in Turns, TurnStep(t) \/ InstanceLost(t)
    PROVE  SeenInv'
<1>1. /\ turn[t] # Nothing /\ turn[t] \in TurnRecords /\ turn[t].step \notin Ended
      /\ \A u \in Turns \ {t} : turn'[u] = turn[u]
      /\ \A e \in log : e.turn \in Turns
  BY OwnTurnOnly DEF TypeInv, TypeOK
<1>2. turn'[t].step \in {"reply", "record"} =>
        /\ PartsSeen(t, turn[t].reply, turn[t].sent)'
        /\ turn'[t].step = "record" => turn'[t].sent = turn'[t].parts
  BY PostReplyCounts, WaysToReply DEF PartsSeen
<1>3. ASSUME NEW e \in log, e.direction = "outbound"
      PROVE  /\ turn'[e.turn] # Nothing /\ turn'[e.turn].step = "done"
             /\ PartsSeen(e.turn, e.text, turn[e.turn].parts)'
  BY <1>1, <1>3 DEF SeenInv, PartsSeen, Ended
<1>4. ASSUME NEW e \in log' \ log, e.direction = "outbound"
      PROVE  /\ turn'[e.turn] # Nothing /\ turn'[e.turn].step = "done"
             /\ PartsSeen(e.turn, e.text, turn[e.turn].parts)'
  <2>1. /\ turn[t].step = "record" /\ Goto(t, "done")
        /\ e = [turn |-> t, direction |-> "outbound", text |-> turn[t].reply]
    BY <1>4, StepFrame DEF Record, At
  <2>2. PartsSeen(t, turn[t].reply, turn[t].parts)
    BY <1>1, <2>1 DEF SeenInv
  <2>3. turn'[t] = [turn[t] EXCEPT !.step = "done"]
    BY <2>1 DEF Goto, TypeInv, TypeOK
  <2>4. /\ turn'[t].step = "done" /\ turn'[t].posts = turn[t].posts
        /\ turn'[t].parts = turn[t].parts /\ turn'[t] \in TurnRecords
    BY <1>1, <2>3 DEF TurnRecords, Steps, Ended
  <2>5. turn'[t] # Nothing
    BY <2>4, RelayAssumption DEF RelayAssumption
  <2> QED
    BY <2>1, <2>2, <2>4, <2>5 DEF PartsSeen
<1> QED
  BY <1>1, <1>2, <1>3, <1>4 DEF SeenInv, PartsSeen

LEMMA NextKeepsSeen == TypeInv /\ RequestInv /\ SeenInv /\ [Next]_vars => SeenInv'
BY ReceiveKeepsSeen, StepKeepsSeen DEF Next, Quiet, vars, SeenInv, PartsSeen

(* What the conversation log holds as a reply was posted, all of it,       *)
(* whatever of the posts, the agent and the instances failed.              *)
THEOREM LoggedRepliesWereSeen == Spec => []LoggedWasSeen
<1>1. SeenInv => LoggedWasSeen
  BY DEF SeenInv, LoggedWasSeen, PartsSeen
<1> QED
  BY <1>1, TypeInvariant, InitRequestInv, NextKeepsRequests, InitSeenInv,
     NextKeepsSeen, PTL DEF Spec
-----------------------------------------------------------------------------
(* What a turn has told the user, of which its answers.                    *)
TextsOf(r) == {r.posts[i].text : i \in DOMAIN r.posts}

AnswersIn(r) == TextsOf(r) \ {Text("unreadable")}

Noticed(t) == Unreadable(EventOf(t)) # {}

HasOneFile(t) == ~Many(EventOf(t)) /\ Readable(EventOf(t)) # {}

BeforeFile == {"begin", "find", "open", "notice", "judge", "download", "stage"}

BeforeAsking == BeforeFile \cup {"refuse", "ask", "rejected", "gone"}

(* Turn t in state r: the file it holds and what it asked the agent.       *)
AskedRight(t, r) ==
    /\ r.step \in BeforeFile => r.file = Nothing
    /\ r.step \in BeforeAsking => r.asked = Nothing
    /\ r.step \in {"download", "stage"} => HasOneFile(t)
    /\ r.step = "ask" =>
          /\ ~Many(EventOf(t))
          /\ r.file = "uri" <=> gcs /\ HasOneFile(t)
    /\ r.asked # Nothing =>
          /\ ~Many(EventOf(t))
          /\ r.asked.file <=> gcs /\ HasOneFile(t)
          /\ r.asked.note <=> Noticed(t)

(* The user has heard of unreadable files exactly when there are some,     *)
(* from the judgement of the files on.                                     *)
NoticeGiven(t, r) ==
    /\ r.step \in {"begin", "find", "open", "notice"} => r.posts = <<>>
    /\ r.step = "notice" => Noticed(t)
    /\ \/ r.step \in {"judge", "download", "stage", "refuse", "ask"}
       \/ r.asked # Nothing
       => (Text("unreadable") \in TextsOf(r) <=> Noticed(t))

(* The answers so far: none before there is one to give, the reply while   *)
(* its parts go out, and one that stays.                                   *)
AnsweredOnce(r) ==
    /\ r.step \notin {"reply", "record", "done", "rejected", "failed", "lost"} =>
          AnswersIn(r) = {}
    /\ r.step \in {"reply", "record"} =>
          /\ AnswersIn(r) \subseteq {r.reply}
          /\ r.reply.kind \notin Refusals \cup {"unreadable"}
    /\ r.step \in {"record", "done", "rejected"} => AnswersIn(r) # {}
    /\ \A a, b \in AnswersIn(r) : a = b
    /\ \A a \in AnswersIn(r) : a.kind \in Refusals => r.asked = Nothing

RepliesToStream(r) ==
    r.stream # Nothing => \E withFile \in BOOLEAN : r.reply = ReplyTo(r.stream, withFile)

Told(t, r) ==
    AskedRight(t, r) /\ NoticeGiven(t, r) /\ AnsweredOnce(r) /\ RepliesToStream(r)

ToldInv == \A t \in Turns : turn[t] # Nothing => Told(t, turn[t])

-----------------------------------------------------------------------------
(* What a turn is to have told holds of the same turn after a step of any  *)
(* other part of the system: it depends on what never changes.             *)
LEMMA ToldStays ==
    ASSUME NEW t \in Turns, UNCHANGED <<raw, gcs>>, Told(t, turn'[t])
    PROVE  Told(t, turn[t])'
BY DEF Told, AskedRight, NoticeGiven, AnsweredOnce, RepliesToStream, HasOneFile,
       Noticed, EventOf, Of, TextsOf, AnswersIn

(* A turn that only moves on has told what it had told.                    *)
LEMMA MovedOn ==
    ASSUME NEW r \in TurnRecords, NEW step \in Steps
    PROVE  LET q == [r EXCEPT !.step = step]
           IN  /\ q \in TurnRecords /\ q.step = step
               /\ q.posts = r.posts /\ q.file = r.file /\ q.asked = r.asked
               /\ q.stream = r.stream /\ q.reply = r.reply /\ q.why = r.why
               /\ TextsOf(q) = TextsOf(r) /\ AnswersIn(q) = AnswersIn(r)
BY DEF TurnRecords, TextsOf, AnswersIn

(* A post adds its text.                                                   *)
LEMMA TextPosted ==
    ASSUME NEW r \in TurnRecords, NEW text \in Texts, NEW part \in 1 .. MaxParts,
           NEW q, q.posts = Append(r.posts, [text |-> text, part |-> part])
    PROVE  /\ TextsOf(q) = TextsOf(r) \cup {text}
           /\ AnswersIn(q) = AnswersIn(r) \cup ({text} \ {Text("unreadable")})
<1> DEFINE post == [text |-> text, part |-> part]
<1>1. r.posts \in Seq([text : Texts, part : 1 .. MaxParts])
  BY DEF TurnRecords
<1>2. /\ DOMAIN q.posts = DOMAIN r.posts \cup {Len(r.posts) + 1}
      /\ q.posts[Len(r.posts) + 1] = post
      /\ \A i \in DOMAIN r.posts : q.posts[i] = r.posts[i]
  BY <1>1
<1> HIDE DEF post
<1>3. TextsOf(q) = TextsOf(r) \cup {post.text}
  BY <1>2 DEF TextsOf
<1> QED
  BY <1>3 DEF AnswersIn, post

LEMMA TextsDiffer ==
    \A a, b : a # b => Text(a) # Text(b) /\ Text(a).kind = a
BY DEF Text

(* A reply to a stream is not a refusal and not the note on files.         *)
LEMMA ReplyKinds ==
    ASSUME NEW s, NEW withFile
    PROVE  ReplyTo(s, withFile).kind \notin Refusals \cup {"unreadable"}
<1>1. Fallback(s, withFile) \in Fallbacks
  BY DEF Fallback, Fallbacks, Errors
<1> QED
  BY <1>1 DEF ReplyTo, Text, Fallbacks, Errors, Refusals

-----------------------------------------------------------------------------
LEMMA InitToldInv == Init => ToldInv
BY DEF Init, ToldInv

LEMMA NewTurnTold == \A t \in Turns : Told(t, NewTurn)
<1>1. TextsOf(NewTurn) = {} /\ AnswersIn(NewTurn) = {}
  BY DEF TextsOf, AnswersIn, NewTurn
<1> QED
  BY <1>1 DEF NewTurn, Told, AskedRight, NoticeGiven, AnsweredOnce, RepliesToStream,
              BeforeFile, BeforeAsking

LEMMA ReceiveKeepsTold ==
    ASSUME TypeInv, ToldInv, NEW m \in Messages, Receive(m)
    PROVE  ToldInv'
<1> DEFINE n == deliveries[m] + 1
<1>1. UNCHANGED <<raw, gcs>> /\ (turn' = turn \/ turn' = [turn EXCEPT ![<<m, n>>] = NewTurn])
  BY DEF Receive
<1>2. \A t \in Turns : turn'[t] = turn[t] \/ turn'[t] = NewTurn
  BY <1>1 DEF TypeInv, TypeOK
<1> QED
  BY <1>1, <1>2, NewTurnTold, ToldStays DEF ToldInv

(* The steps in which a turn only moves on.                                *)
MovesTo(t, from, to) ==
    \/ to \in {"failed", "lost"}
    \/ from = "begin" /\ to = "find"
    \/ from = "find" /\ to \in {"open", "gone"}
    \/ from = "open" /\ to = "notice" /\ Noticed(t)
    \/ from = "open" /\ to = "judge" /\ ~Noticed(t)
    \/ from = "judge" /\ to = "ask" /\ ~Many(EventOf(t)) /\ ~HasOneFile(t)
    \/ from = "judge" /\ to = "download" /\ HasOneFile(t)
    \/ from = "download" /\ to = "stage"
    \/ from \in {"ask", "running"} /\ to = "exhausted"
    \/ from = "record" /\ to = "done"

LEMMA MovingKeepsTold ==
    ASSUME TypeInv, NEW t \in Turns, turn[t] # Nothing, Told(t, turn[t]),
           NEW step \in Steps, MovesTo(t, turn[t].step, step), Goto(t, step)
    PROVE  Told(t, turn'[t])
<1> DEFINE r == turn[t]
           q == turn'[t]
<1>1. r \in TurnRecords /\ q = [r EXCEPT !.step = step]
  BY DEF TypeInv, TypeOK, Goto
<1>2. /\ q.step = step
      /\ q.posts = r.posts /\ q.file = r.file /\ q.asked = r.asked
      /\ q.stream = r.stream /\ q.reply = r.reply
      /\ TextsOf(q) = TextsOf(r) /\ AnswersIn(q) = AnswersIn(r)
  BY <1>1, MovedOn
<1>3. r.posts = <<>> => TextsOf(r) = {}
  BY DEF TextsOf
<1>4. AskedRight(t, r) /\ NoticeGiven(t, r) /\ AnsweredOnce(r) /\ RepliesToStream(r)
      /\ MovesTo(t, r.step, step)
  BY DEF Told
<1> HIDE DEF q, r
<1>5. AskedRight(t, q)
  BY <1>2, <1>4, RelayAssumption
  DEF MovesTo, AskedRight, BeforeFile, BeforeAsking, RelayAssumption
<1>6. NoticeGiven(t, q)
  <2>1. CASE r.step \in {"begin", "find", "open"}
    BY <1>2, <1>3, <1>4, <2>1
    DEF MovesTo, NoticeGiven, AskedRight, BeforeFile, BeforeAsking
  <2>2. CASE r.step \notin {"begin", "find", "open"}
    BY <1>2, <1>4, <2>2 DEF MovesTo, NoticeGiven
  <2> QED
    BY <2>1, <2>2
<1>7. AnsweredOnce(q)
  BY <1>2, <1>4 DEF MovesTo, AnsweredOnce
<1>8. RepliesToStream(q)
  BY <1>2, <1>4 DEF RepliesToStream
<1> QED
  BY <1>5, <1>6, <1>7, <1>8 DEF Told, q

(* An error ends a turn.                                                   *)
LEMMA RaisingKeepsTold ==
    ASSUME TypeInv, NEW t \in Turns, turn[t] # Nothing, Told(t, turn[t]), Raises(t)
    PROVE  Told(t, turn'[t])
BY MovingKeepsTold DEF Raises, MovesTo, Steps, Ended

LEMMA ExhaustingKeepsTold ==
    ASSUME TypeInv, NEW t \in Turns, turn[t] # Nothing, Told(t, turn[t]),
           turn[t].step \in {"ask", "running"}, Goto(t, "exhausted")
    PROVE  Told(t, turn'[t])
BY MovingKeepsTold DEF MovesTo, Steps

(* The notice comes before the files are judged, where there is one to     *)
(* give; it is no answer.                                                  *)
LEMMA NoticeKeepsTold ==
    ASSUME TypeInv, NEW t \in Turns, TellUnreadable(t), Told(t, turn[t])
    PROVE  Told(t, turn'[t])
<1> DEFINE r == turn[t]
           q == turn'[t]
<1>1. r # Nothing /\ r \in TurnRecords /\ r.step = "notice"
  BY DEF TellUnreadable, At, TypeInv, TypeOK
<1>2. CASE Raises(t)
  BY <1>1, <1>2, RaisingKeepsTold
<1>3. CASE turn' = [turn EXCEPT
                ![t].posts = Append(@, [text |-> Text("unreadable"), part |-> 1]),
                ![t].step = "judge"]
  <2>1. /\ q.step = "judge" /\ q.file = r.file /\ q.asked = r.asked
        /\ q.stream = r.stream /\ q.reply = r.reply
        /\ q.posts = Append(r.posts, [text |-> Text("unreadable"), part |-> 1])
    BY <1>1, <1>3 DEF TypeInv, TypeOK, TurnRecords
  <2>2. Text("unreadable") \in Texts /\ 1 \in 1 .. MaxParts
    BY TextIsTyped, RelayAssumption DEF RelayAssumption
  <2>3. TextsOf(q) = TextsOf(r) \cup {Text("unreadable")} /\ AnswersIn(q) = AnswersIn(r)
    <3> HIDE DEF q, r
    <3>1. /\ TextsOf(q) = TextsOf(r) \cup {Text("unreadable")}
          /\ AnswersIn(q) = AnswersIn(r)
                \cup ({Text("unreadable")} \ {Text("unreadable")})
      BY <1>1, <2>1, <2>2, TextPosted
    <3> QED
      BY <3>1
  <2> HIDE DEF q, r
  <2>4. AskedRight(t, q)
    BY <1>1, <2>1 DEF Told, AskedRight, BeforeFile, BeforeAsking, r
  <2>5. NoticeGiven(t, q)
    BY <1>1, <2>1, <2>3 DEF Told, NoticeGiven, r
  <2>6. AnsweredOnce(q)
    BY <1>1, <2>1, <2>3 DEF Told, AnsweredOnce, r
  <2>7. RepliesToStream(q)
    BY <2>1 DEF Told, RepliesToStream, r
  <2> QED
    BY <2>4, <2>5, <2>6, <2>7 DEF Told, q
<1> QED
  BY <1>2, <1>3 DEF TellUnreadable, Post

(* The steps of the files: what the agent may be given is the single file. *)
LEMMA FilesKeepTold ==
    ASSUME TypeInv, NEW t \in Turns, Judge(t) \/ Download(t) \/ Stage(t),
           Told(t, turn[t])
    PROVE  Told(t, turn'[t])
<1> DEFINE r == turn[t]
           q == turn'[t]
<1>1. r # Nothing /\ r \in TurnRecords /\ r.step \in {"judge", "download", "stage"}
  BY DEF Judge, Download, Stage, At, TypeInv, TypeOK
<1>2. ASSUME NEW why \in Refusals, RefuseFor(t, why)
      PROVE  Told(t, q)
  <2>1. /\ q.step = "refuse" /\ q.posts = r.posts /\ q.file = r.file
        /\ q.asked = r.asked /\ q.stream = r.stream /\ q.reply = r.reply
    BY <1>1, <1>2 DEF RefuseFor, TypeInv, TypeOK, TurnRecords
  <2>2. TextsOf(q) = TextsOf(r) /\ AnswersIn(q) = AnswersIn(r)
    BY <2>1 DEF TextsOf, AnswersIn
  <2> HIDE DEF q
  <2> QED
    BY <1>1, <2>1, <2>2
    DEF Told, AskedRight, NoticeGiven, AnsweredOnce, RepliesToStream, BeforeFile,
        BeforeAsking
<1>3. CASE Goto(t, "ask") /\ r.step = "judge" /\ ~Many(EventOf(t)) /\ ~HasOneFile(t)
  BY <1>1, <1>3, MovingKeepsTold DEF MovesTo, Steps
<1>4. CASE Goto(t, "download") /\ r.step = "judge" /\ HasOneFile(t)
  BY <1>1, <1>4, MovingKeepsTold DEF MovesTo, Steps
<1>5. CASE Goto(t, "stage") /\ r.step = "download"
  BY <1>1, <1>5, MovingKeepsTold DEF MovesTo, Steps
<1>6. CASE turn' = [turn EXCEPT ![t].tries = 1] /\ At(t, "download")
  <2>1. /\ q.step = "download" /\ r.step = "download" /\ q.posts = r.posts /\ q.file = r.file
        /\ q.asked = r.asked /\ q.stream = r.stream /\ q.reply = r.reply
    BY <1>1, <1>6 DEF TypeInv, TypeOK, TurnRecords, At
  <2>2. TextsOf(q) = TextsOf(r) /\ AnswersIn(q) = AnswersIn(r)
    BY <2>1 DEF TextsOf, AnswersIn
  <2> HIDE DEF q
  <2>3. Told(t, q)
    BY <2>1, <2>2
    DEF Told, AskedRight, NoticeGiven, AnsweredOnce, RepliesToStream, BeforeFile,
        BeforeAsking
  <2> QED
    BY <2>3 DEF q
<1>7. ASSUME NEW file \in {"uri", "bytes"}, r.step = "stage", file = "uri" <=> gcs,
             turn' = [turn EXCEPT ![t].file = file, ![t].step = "ask"]
      PROVE  Told(t, q)
  <2>1. /\ q.step = "ask" /\ q.posts = r.posts /\ q.file = file
        /\ q.asked = r.asked /\ q.stream = r.stream /\ q.reply = r.reply
    BY <1>1, <1>7 DEF TypeInv, TypeOK, TurnRecords
  <2>2. TextsOf(q) = TextsOf(r) /\ AnswersIn(q) = AnswersIn(r)
    BY <2>1 DEF TextsOf, AnswersIn
  <2>3. HasOneFile(t) => ~Many(EventOf(t))
    BY DEF HasOneFile
  <2> HIDE DEF q
  <2> QED
    BY <1>7, <2>1, <2>2, <2>3
    DEF Told, AskedRight, NoticeGiven, AnsweredOnce, RepliesToStream, BeforeFile,
        BeforeAsking
<1>8. CASE Judge(t)
  BY <1>2, <1>3, <1>4, <1>8 DEF Judge, Refusals, HasOneFile, At
<1>9. CASE Download(t)
  BY <1>2, <1>5, <1>6, <1>9 DEF Download, Refusals, At
<1>10. CASE Stage(t)
  BY <1>2, <1>7, <1>10 DEF Stage, Refusals, At
<1> QED
  BY <1>8, <1>9, <1>10

(* One answer is posted where there was none: by a turn that refuses, or   *)
(* one whose agent has no quota left.                                      *)
LEMMA AnswerKeepsTold ==
    ASSUME TypeInv, NEW t \in Turns, Refuse(t) \/ TellExhausted(t), Told(t, turn[t])
    PROVE  Told(t, turn'[t])
<1> DEFINE r == turn[t]
           q == turn'[t]
<1>1. r # Nothing /\ r \in TurnRecords /\ r.step \in {"refuse", "exhausted"}
  BY DEF Refuse, TellExhausted, At, TypeInv, TypeOK
<1>2. CASE Raises(t)
  BY <1>1, <1>2, RaisingKeepsTold
<1>3. ASSUME NEW kind \in Refusals \cup {"exhausted"}, NEW step \in {"rejected", "done"},
             kind \in Refusals => r.step = "refuse",
             step = "rejected" <=> r.step = "refuse",
             turn' = [turn EXCEPT
                ![t].posts = Append(@, [text |-> Text(kind), part |-> 1]),
                ![t].step = step]
      PROVE  Told(t, q)
  <2>1. /\ q.step = step /\ q.file = r.file /\ q.asked = r.asked
        /\ q.stream = r.stream /\ q.reply = r.reply
        /\ q.posts = Append(r.posts, [text |-> Text(kind), part |-> 1])
    BY <1>1, <1>3 DEF TypeInv, TypeOK, TurnRecords
  <2>2. Text(kind) \in Texts /\ 1 \in 1 .. MaxParts
    BY TextIsTyped, RelayAssumption DEF RelayAssumption
  <2>3. /\ Text(kind).kind = kind /\ Text(kind) # Text("unreadable")
        /\ kind \notin {"unreadable"}
    BY TextsDiffer DEF Refusals
  <2> HIDE DEF q, r
  <2>4. /\ TextsOf(q) = TextsOf(r) \cup {Text(kind)}
        /\ AnswersIn(q) = AnswersIn(r) \cup ({Text(kind)} \ {Text("unreadable")})
    BY <1>1, <2>1, <2>2, TextPosted
  <2>5. AskedRight(t, q)
    BY <1>1, <1>3, <2>1 DEF Told, AskedRight, BeforeFile, BeforeAsking, r
  <2>6. NoticeGiven(t, q)
    BY <1>1, <1>3, <2>1, <2>3, <2>4 DEF Told, NoticeGiven, r
  <2>7. AnsweredOnce(q)
    <3>1. AnswersIn(r) = {} /\ AnswersIn(q) = {Text(kind)}
      BY <1>1, <2>3, <2>4 DEF Told, AnsweredOnce, r
    <3>2. r.step = "refuse" => r.asked = Nothing
      BY DEF Told, AskedRight, BeforeAsking, r
    <3> QED
      BY <1>3, <2>1, <2>3, <3>1, <3>2 DEF AnsweredOnce
  <2>8. RepliesToStream(q)
    BY <2>1 DEF Told, RepliesToStream, r
  <2> QED
    BY <2>5, <2>6, <2>7, <2>8 DEF Told
<1>4. CASE Refuse(t)
  <2>1. r.step = "refuse" /\ r.why \in Refusals
    BY <1>1, <1>4 DEF Refuse, At, TypeInv, TurnReady, TurnRecords
  <2> QED
    BY <1>2, <1>3, <1>4, <2>1 DEF Refuse, Post
<1>5. CASE TellExhausted(t)
  <2>1. r.step = "exhausted"
    BY <1>5 DEF TellExhausted, At
  <2>2. CASE turn' = [turn EXCEPT
                ![t].posts = Append(@, [text |-> Text("exhausted"), part |-> 1]),
                ![t].step = "done"]
    BY <1>3, <2>1, <2>2 DEF Refusals
  <2> QED
    BY <1>2, <1>5, <2>2 DEF TellExhausted, Post
<1> QED
  BY <1>4, <1>5

(* The agent is asked, with the file that was staged.                      *)
LEMMA AskKeepsTold ==
    ASSUME TypeInv, NEW t \in Turns, Ask(t), Told(t, turn[t])
    PROVE  Told(t, turn'[t])
<1> DEFINE r == turn[t]
           q == turn'[t]
<1>1. r # Nothing /\ r \in TurnRecords /\ r.step = "ask"
  BY DEF Ask, At, TypeInv, TypeOK
<1>2. CASE Goto(t, "exhausted") \/ Raises(t)
  BY <1>1, <1>2, RaisingKeepsTold, ExhaustingKeepsTold
<1>3. CASE turn' = [turn EXCEPT ![t].asked = Input(t), ![t].step = "running"]
  <2>1. /\ q.step = "running" /\ q.file = r.file /\ q.asked = Input(t)
        /\ q.stream = r.stream /\ q.reply = r.reply /\ q.posts = r.posts
    BY <1>1, <1>3 DEF TypeInv, TypeOK, TurnRecords
  <2>2. TextsOf(q) = TextsOf(r) /\ AnswersIn(q) = AnswersIn(r)
    BY <2>1 DEF TextsOf, AnswersIn
  <2>3. Input(t).file = (r.file = "uri") /\ Input(t).note = Noticed(t)
    BY DEF Input, Noticed
  <2> HIDE DEF q, r
  <2>4. AskedRight(t, q)
    BY <1>1, <2>1, <2>3 DEF Told, AskedRight, BeforeFile, BeforeAsking, r
  <2>5. NoticeGiven(t, q)
    BY <1>1, <2>1, <2>2 DEF Told, NoticeGiven, r
  <2>6. AnsweredOnce(q)
    BY <1>1, <2>1, <2>2 DEF Told, AnsweredOnce, r
  <2>7. RepliesToStream(q)
    BY <2>1 DEF Told, RepliesToStream, r
  <2> QED
    BY <2>4, <2>5, <2>6, <2>7 DEF Told, q
<1> QED
  BY <1>2, <1>3 DEF Ask

(* The run ends with a reply that nothing of was posted yet.               *)
LEMMA RunEndsKeepsTold ==
    ASSUME TypeInv, NEW t \in Turns, RunEnds(t), Told(t, turn[t])
    PROVE  Told(t, turn'[t])
<1> DEFINE r == turn[t]
           q == turn'[t]
<1>1. r # Nothing /\ r \in TurnRecords /\ r.step = "running"
  BY DEF RunEnds, At, TypeInv, TypeOK
<1>2. CASE Goto(t, "exhausted") \/ Raises(t)
  BY <1>1, <1>2, RaisingKeepsTold, ExhaustingKeepsTold
<1>3. ASSUME NEW s, NEW reply, NEW n, Tells(t, s, reply, n),
             reply.kind \notin Refusals \cup {"unreadable"},
             s # Nothing => \E withFile \in BOOLEAN : reply = ReplyTo(s, withFile)
      PROVE  Told(t, q)
  <2>1. /\ q.step = "reply" /\ q.file = r.file /\ q.asked = r.asked
        /\ q.stream = s /\ q.reply = reply /\ q.posts = r.posts
    BY <1>1, <1>3 DEF Tells, TypeInv, TypeOK, TurnRecords
  <2>2. TextsOf(q) = TextsOf(r) /\ AnswersIn(q) = AnswersIn(r)
    BY <2>1 DEF TextsOf, AnswersIn
  <2> HIDE DEF q, r
  <2>3. AskedRight(t, q)
    BY <1>1, <2>1 DEF Told, AskedRight, BeforeFile, BeforeAsking, r
  <2>4. NoticeGiven(t, q)
    BY <1>1, <2>1, <2>2 DEF Told, NoticeGiven, r
  <2>5. AnsweredOnce(q)
    BY <1>1, <1>3, <2>1, <2>2 DEF Told, AnsweredOnce, r
  <2>6. RepliesToStream(q)
    BY <1>3, <2>1 DEF RepliesToStream
  <2> QED
    BY <2>3, <2>4, <2>5, <2>6 DEF Told
<1>4. ASSUME NEW s \in Streams, NEW n,
             Tells(t, s, ReplyTo(s, turn[t].file # Nothing), n)
      PROVE  Told(t, q)
  BY <1>3, <1>4, ReplyKinds
<1>5. CASE Tells(t, Nothing, Text("stream_broken"), 1)
  BY <1>3, <1>5, TextsDiffer DEF Refusals
<1> QED
  BY <1>2, <1>4, <1>5 DEF RunEnds

(* The parts of a reply go out one by one, and are one answer.             *)
LEMMA PostReplyKeepsTold ==
    ASSUME TypeInv, NEW t \in Turns, PostReply(t), Told(t, turn[t])
    PROVE  Told(t, turn'[t])
<1> DEFINE r == turn[t]
           q == turn'[t]
           part == r.sent + 1
<1>1. /\ r # Nothing /\ r \in TurnRecords /\ r.step = "reply" /\ r.reply \in Texts
      /\ part \in 1 .. MaxParts
  <2>1. r # Nothing /\ r \in TurnRecords /\ r.step = "reply"
    BY DEF PostReply, At, TypeInv, TypeOK
  <2>2. r.reply # Nothing /\ r.sent < r.parts
    BY <2>1 DEF TypeInv, TurnReady
  <2> QED
    BY <2>1, <2>2, MaxPartsIsPositive DEF TurnRecords
<1>2. CASE Raises(t)
  BY <1>1, <1>2, RaisingKeepsTold
<1>3. ASSUME NEW step \in {"record", "reply"},
             turn' = [turn EXCEPT
                ![t].posts = Append(@, [text |-> r.reply, part |-> part]),
                ![t].sent = part, ![t].step = step]
      PROVE  Told(t, q)
  <2>1. /\ q.step = step /\ q.file = r.file /\ q.asked = r.asked
        /\ q.stream = r.stream /\ q.reply = r.reply
        /\ q.posts = Append(r.posts, [text |-> r.reply, part |-> part])
    BY <1>1, <1>3 DEF TypeInv, TypeOK, TurnRecords
  <2> HIDE DEF q, r, part
  <2>2. /\ TextsOf(q) = TextsOf(r) \cup {r.reply}
        /\ AnswersIn(q) = AnswersIn(r) \cup ({r.reply} \ {Text("unreadable")})
    BY <1>1, <2>1, TextPosted
  <2>3. r.reply # Text("unreadable") /\ r.reply.kind \notin Refusals \cup {"unreadable"}
    BY <1>1, TextsDiffer DEF Told, AnsweredOnce, r
  <2>4. AskedRight(t, q)
    BY <1>1, <2>1 DEF Told, AskedRight, BeforeFile, BeforeAsking, r
  <2>5. NoticeGiven(t, q)
    BY <1>1, <2>1, <2>2, <2>3 DEF Told, NoticeGiven, r
  <2>6. AnsweredOnce(q)
    <3>1. AnswersIn(q) = {r.reply}
      BY <1>1, <2>2, <2>3 DEF Told, AnsweredOnce, r
    <3> QED
      BY <1>1, <2>1, <2>3, <3>1 DEF AnsweredOnce
  <2>7. RepliesToStream(q)
    BY <2>1 DEF Told, RepliesToStream, r
  <2> QED
    BY <2>4, <2>5, <2>6, <2>7 DEF Told
<1> QED
  BY <1>2, <1>3 DEF PostReply, PostPart

(* The steps that move on, and those that do more.                         *)
LEMMA OtherStepsKeepTold ==
    ASSUME TypeInv, NEW t \in Turns, Told(t, turn[t]),
           \/ InstanceLost(t) \/ ReadProfile(t) \/ FindUser(t)
           \/ OpenConversation(t) \/ RecordReply(t)
    PROVE  Told(t, turn'[t])
<1> USE DEF MovesTo, Steps, Ended
<1>1. CASE InstanceLost(t)
  BY <1>1, MovingKeepsTold DEF InstanceLost, Running
<1>2. CASE ReadProfile(t)
  BY <1>2, MovingKeepsTold, RaisingKeepsTold DEF ReadProfile, At
<1>3. CASE FindUser(t)
  BY <1>3, MovingKeepsTold, RaisingKeepsTold DEF FindUser, At
<1>4. CASE OpenConversation(t)
  BY <1>4, MovingKeepsTold, RaisingKeepsTold DEF OpenConversation, Noticed, At
<1>5. CASE RecordReply(t)
  BY <1>5, MovingKeepsTold DEF RecordReply, At
<1> QED
  BY <1>1, <1>2, <1>3, <1>4, <1>5

LEMMA NextKeepsTold == TypeInv /\ ToldInv /\ [Next]_vars => ToldInv'
<1> SUFFICES ASSUME TypeInv, ToldInv, [Next]_vars PROVE ToldInv'
  OBVIOUS
<1>1. CASE \E m \in Messages : Receive(m)
  BY <1>1, ReceiveKeepsTold
<1>2. ASSUME NEW t \in Turns, TurnStep(t) \/ InstanceLost(t)
      PROVE  ToldInv'
  <2>1. /\ turn[t] # Nothing /\ \A u \in Turns \ {t} : turn'[u] = turn[u]
        /\ UNCHANGED <<raw, gcs>>
    BY <1>2, OwnTurnOnly, StepFrame
  <2>2. Told(t, turn[t])
    BY <2>1 DEF ToldInv
  <2>3. Told(t, turn'[t])
    BY <1>2, <2>2, OtherStepsKeepTold, NoticeKeepsTold, FilesKeepTold,
       AnswerKeepsTold, AskKeepsTold, RunEndsKeepsTold, PostReplyKeepsTold
    DEF TurnStep
  <2>4. \A u \in Turns : turn'[u] # Nothing => Told(u, turn'[u])
    BY <2>1, <2>3 DEF ToldInv
  <2> QED
    BY <2>1, <2>4, ToldStays DEF ToldInv
<1>3. CASE UNCHANGED vars
  BY <1>3, ToldStays DEF vars, ToldInv
<1> QED
  BY <1>1, <1>2, <1>3 DEF Next, Quiet

LEMMA ToldInvariant == Spec => []ToldInv
BY TypeInvariant, InitToldInv, NextKeepsTold, PTL DEF Spec

(* Whatever fails, an agent that is called has the user's single readable  *)
(* file when it can have it, and knows of the other files what the user    *)
(* was told.                                                               *)
THEOREM AgentsSeeTheFile == Spec => []AgentSeesTheFile
<1>1. ASSUME TypeInv, ToldInv
      PROVE  AgentSeesTheFile
  <2>1. SUFFICES ASSUME NEW t \in Turns, turn[t] # Nothing, turn[t].asked # Nothing
                 PROVE  LET e == EventOf(t)
                        IN  /\ ~Many(e)
                            /\ turn[t].asked.file <=> gcs /\ Readable(e) # {}
                            /\ turn[t].asked.note <=> \E i \in DOMAIN turn[t].posts :
                                 turn[t].posts[i].text = Text("unreadable")
    BY DEF AgentSeesTheFile
  <2>2. AskedRight(t, turn[t]) /\ NoticeGiven(t, turn[t])
    BY <1>1, <2>1 DEF ToldInv, Told
  <2> QED
    BY <2>1, <2>2 DEF AskedRight, NoticeGiven, HasOneFile, TextsOf
<1> QED
  BY <1>1, TypeInvariant, ToldInvariant, PTL

(* A turn never gives the user two answers, ends well only with one, and   *)
(* does not call the agent for a message it refuses.                       *)
THEOREM TurnsAnswerOnce == Spec => []OneAnswerPerTurn
<1>1. ASSUME ToldInv
      PROVE  OneAnswerPerTurn
  <2>1. SUFFICES ASSUME NEW t \in Turns, turn[t] # Nothing
                 PROVE  /\ Cardinality(AnswersIn(turn[t])) <= 1
                        /\ turn[t].step \in {"done", "rejected"} =>
                              AnswersIn(turn[t]) # {}
                        /\ (\E a \in AnswersIn(turn[t]) : a.kind \in Refusals) =>
                              turn[t].asked = Nothing
    BY DEF OneAnswerPerTurn, AnswersIn, TextsOf
  <2>2. AnsweredOnce(turn[t])
    BY <1>1, <2>1 DEF ToldInv, Told
  <2>3. Cardinality(AnswersIn(turn[t])) <= 1
    <3>1. CASE AnswersIn(turn[t]) = {}
      BY <3>1, FS_EmptySet
    <3>2. CASE AnswersIn(turn[t]) # {}
      <4>1. PICK a : AnswersIn(turn[t]) = {a}
        BY <2>2, <3>2 DEF AnsweredOnce
      <4> QED
        BY <4>1, FS_Singleton
    <3> QED
      BY <3>1, <3>2
  <2> QED
    BY <2>2, <2>3 DEF AnsweredOnce
<1> QED
  BY <1>1, ToldInvariant, PTL

-----------------------------------------------------------------------------
(* What the extraction takes of a stream: the words after its last tool    *)
(* call, or, where there are none, all the words.                          *)
LEMMA ExtractedWords ==
    ASSUME NEW s \in Seq(Chunks), NEW withFile
    PROVE  LET words == {i \in DOMAIN s : s[i].text = "words"}
               last == {i \in words : \A j \in i .. Len(s) : s[j].tool = "none"}
               reply == ReplyTo(s, withFile)
           IN  /\ reply.said \cap words = IF last # {} THEN last ELSE words
               /\ reply.kind = "words" <=> words # {}
<1> DEFINE words == {i \in DOMAIN s : s[i].text = "words"}
           last == {i \in words : \A j \in i .. Len(s) : s[j].tool = "none"}
           reply == ReplyTo(s, withFile)
<1>1. DOMAIN s = 1 .. Len(s) /\ Len(s) \in Nat
  OBVIOUS
<1>2. words \subseteq TextParts(s)
  BY DEF TextParts
<1>3. FinalParts(s) \cap words = last
  <2>1. ASSUME NEW i \in words
        PROVE  i \in FinalParts(s) <=> \A j \in i .. Len(s) : s[j].tool = "none"
    <3>1. i \in TextParts(s) /\ i \in 1 .. Len(s)
      BY <1>1, <1>2
    <3>2. (\A j \in DOMAIN s : s[j].tool # "none" => j < i)
            <=> \A j \in i .. Len(s) : s[j].tool = "none"
      BY <1>1, <3>1
    <3> QED
      BY <3>1, <3>2 DEF FinalParts
  <2> QED
    BY <2>1
<1>4. HasWords(s, FinalParts(s)) <=> last # {}
  <2>1. FinalParts(s) \subseteq DOMAIN s
    BY DEF FinalParts, TextParts
  <2>2. \A i \in FinalParts(s) : s[i].text = "words" <=> i \in words
    BY <2>1
  <2> QED
    BY <1>3, <2>2 DEF HasWords
<1>5. HasWords(s, TextParts(s)) <=> words # {}
  BY DEF HasWords, TextParts
<1>6. last \subseteq words
  OBVIOUS
<1>7. Fallback(s, withFile) # "words"
  BY DEF Fallback
<1> HIDE DEF words, last
<1>8. /\ ExtractText(s) \cap words = IF last # {} THEN last ELSE words
      /\ HasWords(s, ExtractText(s)) <=> words # {}
  BY <1>2, <1>3, <1>4, <1>5, <1>6 DEF ExtractText
<1>9. /\ reply.said \cap words = IF last # {} THEN last ELSE words
      /\ reply.kind = "words" <=> words # {}
  BY <1>6, <1>7, <1>8 DEF ReplyTo, Text
<1> QED
  BY <1>9 DEF words, last

(* The user is told what the agent said last, whatever the stream.         *)
THEOREM RepliesAreTheLastWord == Spec => []ReplyIsTheLastWord
<1>1. ASSUME TypeInv, ToldInv
      PROVE  ReplyIsTheLastWord
  <2> SUFFICES ASSUME NEW t \in Turns, turn[t] # Nothing, turn[t].stream # Nothing
               PROVE  LET s == turn[t].stream
                          words == {i \in DOMAIN s : s[i].text = "words"}
                          last == {i \in words : \A j \in i .. Len(s) : s[j].tool = "none"}
                          said == turn[t].reply.said
                      IN  /\ said \cap words = IF last # {} THEN last ELSE words
                          /\ turn[t].reply.kind = "words" <=> words # {}
    BY DEF ReplyIsTheLastWord
  <2>1. turn[t].stream \in Seq(Chunks)
    BY <1>1, RelayAssumption DEF TypeInv, TypeOK, TurnRecords, RelayAssumption
  <2>2. PICK withFile \in BOOLEAN : turn[t].reply = ReplyTo(turn[t].stream, withFile)
    BY <1>1 DEF ToldInv, Told, RepliesToStream
  <2> QED
    BY <2>1, <2>2, ExtractedWords
<1> QED
  BY <1>1, TypeInvariant, ToldInvariant, PTL

=============================================================================
