------------------------------- MODULE Relay --------------------------------
(***************************************************************************)
(* A user's message on its way through the Forum: the platform's webhook   *)
(* request and its redeliveries, the endpoint's answer, and the turn that  *)
(* runs in the background after it (process_platform_event): the event is  *)
(* logged, its files are judged and staged, the agent is asked, and what   *)
(* the user is told is posted and logged.  Any call to a platform, to      *)
(* Firestore, to Cloud Storage or to the agent may fail, and an instance   *)
(* may go away with the turns it was running.                              *)
(*                                                                         *)
(* The session document and the run marker are modelled in SessionRuns,    *)
(* the user record in Identity: here their calls succeed or raise.         *)
(***************************************************************************)
EXTENDS PlatformEvents, AgentReply, FiniteSets

CONSTANTS
    Messages,
    Samples,        \* what a platform may send as a message: a set of Wire
    Accepted,       \* media types the agent declares, or the image types
    Streams,        \* runs of the agent: sequences of Chunks
    MaxDeliveries,  \* bound: requests for one message
    MaxParts,       \* bound: posts a long text is split into
    Nothing         \* no turn, no file verdict, no reply

Turns == Messages \X (1 .. MaxDeliveries)

(* What the agent was given: the user's words, the file, the note that     *)
(* other files were removed.                                               *)
Inputs == [words : BOOLEAN, file : BOOLEAN, note : BOOLEAN]

Refusals == {"multiple", "too_large", "download", "upload"}
Texts == [kind : {"words"} \cup Fallbacks \cup Refusals
                   \cup {"user", "unreadable", "stream_broken", "exhausted"},
          said : SUBSET Nat]

Ended == {"done", "rejected", "failed", "gone", "lost"}
Steps == Ended \cup {"begin", "find", "open", "notice", "judge", "download", "stage", "refuse",
                     "ask", "running", "reply", "record", "exhausted"}

(* A turn as it starts.  file is the image payload: Nothing, the uri of an *)
(* upload or the bytes themselves; asked is what the agent was given; sent *)
(* counts the parts of the reply that were posted, posts is everything.    *)
NewTurn ==
    [step |-> "begin", why |-> Nothing, tries |-> 0, file |-> Nothing,
     asked |-> Nothing, stream |-> Nothing, reply |-> Nothing, parts |-> 0,
     sent |-> 0, posts |-> <<>>]

TurnRecords ==
    [step : Steps, why : Refusals \cup {Nothing}, tries : 0 .. 1,
     file : {Nothing, "uri", "bytes"}, asked : Inputs \cup {Nothing},
     stream : Streams \cup {Nothing}, reply : Texts \cup {Nothing},
     parts : 0 .. MaxParts, sent : 0 .. MaxParts,
     posts : Seq([text : Texts, part : 1 .. MaxParts])]

ASSUME RelayAssumption ==
    /\ Samples \subseteq Wire
    /\ Accepted \subseteq Mimes /\ DriveMime \notin Accepted
    /\ Streams \subseteq Seq(Chunks)
    /\ {MaxDeliveries, MaxParts} \subseteq Nat \ {0}
    /\ Nothing \notin Refusals \cup Texts \cup Inputs \cup TurnRecords \cup Streams
                   \cup {"uri", "bytes"}

VARIABLES
    raw,         \* message -> what its platform sends; never changes
    gcs,         \* whether a bucket is configured; never changes
    deliveries,  \* message -> requests made for it
    acked,       \* messages whose platform heard a 200
    turn,        \* delivery -> its turn, Nothing when there is none
    log          \* the conversation log: entries [turn, direction, text]

vars == <<raw, gcs, deliveries, acked, turn, log>>

Of(t) == raw[t[1]]
EventOf(t) == Event(Of(t))

Running == {t \in Turns : turn[t] # Nothing /\ turn[t].step \notin Ended}

-----------------------------------------------------------------------------
TypeOK ==
    /\ raw \in [Messages -> Samples]
    /\ gcs \in BOOLEAN
    /\ deliveries \in [Messages -> 0 .. MaxDeliveries]
    /\ acked \subseteq Messages
    /\ turn \in [Turns -> TurnRecords \cup {Nothing}]
    /\ log \subseteq [turn : Turns, direction : {"inbound", "outbound"},
                      text : Texts]

Init ==
    /\ raw \in [Messages -> Samples]
    /\ gcs \in BOOLEAN
    /\ deliveries = [m \in Messages |-> 0]
    /\ acked = {}
    /\ turn = [t \in Turns |-> Nothing]
    /\ log = {}

-----------------------------------------------------------------------------
(* A request for a message.  It may get lost on its way, and the answer on *)
(* its way back: the platform then makes it again, if it is one that does. *)
Receive(m) ==
    LET n == deliveries[m] + 1
        retry == n > 1
    IN  /\ m \notin acked
        /\ n <= MaxDeliveries
        /\ retry => Redelivers(raw[m])
        /\ deliveries' = [deliveries EXCEPT ![m] = n]
        /\ \/ UNCHANGED <<acked, turn>>
           \/ \E answer \in Answers(raw[m], retry), heard \in BOOLEAN :
                /\ turn' = IF answer = "accepted"
                           THEN [turn EXCEPT ![<<m, n>>] = NewTurn] ELSE turn
                /\ acked' = IF heard /\ answer \in {"ignored", "accepted"}
                            THEN acked \cup {m} ELSE acked
        /\ UNCHANGED <<raw, gcs, log>>

-----------------------------------------------------------------------------
At(t, step) == turn[t] # Nothing /\ turn[t].step = step

Goto(t, step) == turn' = [turn EXCEPT ![t].step = step]

(* process_platform_event catches everything that nothing else did.        *)
Raises(t) == Goto(t, "failed")

(* One post: the text goes out and the turn moves on, or the call raises.  *)
Post(t, text, part, next) ==
    \/ turn' = [turn EXCEPT ![t].posts = Append(@, [text |-> text, part |-> part]),
                            ![t].step = next]
    \/ (MayFail(Of(t), "post") /\ Raises(t))

(* record_message never raises: an entry it cannot write is missing.       *)
Record(t, direction, text) ==
    log' \in {log, log \cup {[turn |-> t, direction |-> direction, text |-> text]}}

RefuseFor(t, why) ==
    turn' = [turn EXCEPT ![t].step = "refuse", ![t].why = why]

Readable(e) == {i \in DOMAIN e.files : e.files[i].mime \in Accepted}

Unreadable(e) == {i \in DOMAIN e.files : e.files[i].mime \notin Accepted}

(* get_user_info.                                                          *)
ReadProfile(t) ==
    /\ At(t, "begin")
    /\ Goto(t, "find") \/ (MayFail(Of(t), "profile") /\ Raises(t))
    /\ UNCHANGED <<raw, gcs, deliveries, acked, log>>

(* resolve_user may raise; without the agent's document the turn returns,  *)
(* and in either case the user hears nothing.                              *)
FindUser(t) ==
    /\ At(t, "find")
    /\ Goto(t, "open") \/ Goto(t, "gone") \/ Raises(t)
    /\ UNCHANGED <<raw, gcs, deliveries, acked, log>>

(* With the conversation open what the user said is logged, whatever       *)
(* becomes of it.                                                          *)
OpenConversation(t) ==
    /\ At(t, "open")
    /\ \/ /\ Record(t, "inbound", Text("user"))
          /\ Goto(t, IF Unreadable(EventOf(t)) # {} THEN "notice" ELSE "judge")
       \/ /\ MayFail(Of(t), "open") /\ Raises(t)
          /\ UNCHANGED log
    /\ UNCHANGED <<raw, gcs, deliveries, acked>>

(* The user is told that some of the files cannot be read.                 *)
TellUnreadable(t) ==
    /\ At(t, "notice")
    /\ Post(t, Text("unreadable"), 1, "judge")
    /\ UNCHANGED <<raw, gcs, deliveries, acked, log>>

Many(e) == (\E i, j \in Readable(e) : i # j) \/ e.album

TheFile(e) == e.files[CHOOSE i \in Readable(e) : TRUE]

(* _apply_file_rules, and the checks of _intake_single_file that need no   *)
(* download: too many files, none, or a single one too large to fetch or   *)
(* without anything to fetch it by.                                        *)
Judge(t) ==
    LET e == EventOf(t)
        f == TheFile(e)
    IN  /\ At(t, "judge")
        /\ \/ Many(e) /\ RefuseFor(t, "multiple")
           \/ ~Many(e) /\ Readable(e) = {} /\ Goto(t, "ask")
           \/ /\ ~Many(e) /\ Readable(e) # {}
              /\ \/ f.sized /\ f.big /\ RefuseFor(t, "too_large")
                 \/ ~(f.sized /\ f.big) /\ ~f.ref /\ RefuseFor(t, "download")
                 \/ ~(f.sized /\ f.big) /\ f.ref /\ Goto(t, "download")
        /\ UNCHANGED <<raw, gcs, deliveries, acked, log>>

\* Mutant: the count of the attempts starts over.
DownloadForever(t) ==
    /\ At(t, "download")
    /\ \/ Goto(t, "stage")
       \/ turn' = [turn EXCEPT ![t].tries = 1 - @]
    /\ UNCHANGED <<raw, gcs, deliveries, acked, log>>

(* A failed download is tried once more.                                   *)
Download(t) ==
    /\ At(t, "download")
    /\ \/ Goto(t, "stage")
       \/ /\ MayFail(Of(t), "download")
          /\ IF turn[t].tries = 0 THEN turn' = [turn EXCEPT ![t].tries = 1]
             ELSE RefuseFor(t, "download")
    /\ UNCHANGED <<raw, gcs, deliveries, acked, log>>

\* Mutant: the agent gets the text alone when the upload fails.
StageOrText(t) ==
    LET ready(file) == turn' = [turn EXCEPT ![t].file = file, ![t].step = "ask"]
    IN  /\ At(t, "stage")
        /\ IF TheFile(EventOf(t)).big THEN RefuseFor(t, "too_large")
           ELSE IF gcs THEN ready("uri") \/ ready(Nothing)
           ELSE ready("bytes")
        /\ UNCHANGED <<raw, gcs, deliveries, acked, log>>

(* The bytes are measured and put in the bucket, if there is one.          *)
(* upload_file makes a GcsUploadError of every exception of the upload, so *)
(* none reaches the catch-all from here.                                   *)
Stage(t) ==
    LET ready(file) == turn' = [turn EXCEPT ![t].file = file, ![t].step = "ask"]
    IN  /\ At(t, "stage")
        /\ IF TheFile(EventOf(t)).big THEN RefuseFor(t, "too_large")
           ELSE IF gcs THEN ready("uri") \/ RefuseFor(t, "upload")
           ELSE ready("bytes")
        /\ UNCHANGED <<raw, gcs, deliveries, acked, log>>

\* Mutant: a turn that told the user why goes on to the agent.
RefuseAndAsk(t) ==
    /\ At(t, "refuse")
    /\ Post(t, Text(turn[t].why), 1, "ask")
    /\ UNCHANGED <<raw, gcs, deliveries, acked, log>>

(* A hard reject: the user is told why, the agent is not called.           *)
Refuse(t) ==
    /\ At(t, "refuse")
    /\ Post(t, Text(turn[t].why), 1, "rejected")
    /\ UNCHANGED <<raw, gcs, deliveries, acked, log>>

(* What the agent is sent.  Bytes that are in no bucket are left out.      *)
Input(t) ==
    [words |-> EventOf(t).words,
     file |-> turn[t].file = "uri",
     note |-> Unreadable(EventOf(t)) # {}]

(* The session is got or created, its marker set and the message sent.     *)
Ask(t) ==
    /\ At(t, "ask")
    /\ \/ turn' = [turn EXCEPT ![t].asked = Input(t), ![t].step = "running"]
       \/ Goto(t, "exhausted")
       \/ Raises(t)
    /\ UNCHANGED <<raw, gcs, deliveries, acked, log>>

(* The turn has a reply for run s, in n parts.                             *)
Tells(t, s, reply, n) ==
    turn' = [turn EXCEPT ![t].stream = s, ![t].reply = reply, ![t].parts = n,
                         ![t].sent = 0, ![t].step = "reply"]

(* The run ends: with a stream, with one that broke, with the model's      *)
(* quota exhausted, or with another error.                                 *)
RunEnds(t) ==
    /\ At(t, "running")
    /\ \/ \E s \in Streams :
            LET reply == ReplyTo(s, turn[t].file # Nothing)
            IN  \E n \in PostsFor(Of(t), reply.kind, MaxParts) :
                  Tells(t, s, reply, n)
       \/ Tells(t, Nothing, Text("stream_broken"), 1)
       \/ Goto(t, "exhausted")
       \/ Raises(t)
    /\ UNCHANGED <<raw, gcs, deliveries, acked, log>>

(* The next part of a split reply is posted, and send_message comes to     *)
(* next with it; an error ends the turn.                                   *)
PostPart(t, next) ==
    LET part == turn[t].sent + 1
        post == [text |-> turn[t].reply, part |-> part]
    IN  \/ turn' = [turn EXCEPT ![t].posts = Append(@, post),
                                ![t].sent = part, ![t].step = next]
        \/ (MayFail(Of(t), "post") /\ Raises(t))

\* Mutant: a reply has one part more.
PostReplyOneMore(t) ==
    /\ At(t, "reply")
    /\ PostPart(t, IF turn[t].sent = turn[t].parts THEN "record" ELSE "reply")
    /\ UNCHANGED <<raw, gcs, deliveries, acked, log>>

\* Mutant: a part that is not posted ends the reply, which is logged.
PostReplyAnyway(t) ==
    /\ At(t, "reply")
    /\ \/ PostPart(t, IF turn[t].sent + 1 = turn[t].parts
                      THEN "record" ELSE "reply")
       \/ Goto(t, "record")
    /\ UNCHANGED <<raw, gcs, deliveries, acked, log>>

(* The reply goes out part by part; the parts before one that fails stay   *)
(* where they are, in no log.                                              *)
PostReply(t) ==
    /\ At(t, "reply")
    /\ PostPart(t, IF turn[t].sent + 1 = turn[t].parts
                   THEN "record" ELSE "reply")
    /\ UNCHANGED <<raw, gcs, deliveries, acked, log>>

RecordReply(t) ==
    /\ At(t, "record")
    /\ Record(t, "outbound", turn[t].reply)
    /\ Goto(t, "done")
    /\ UNCHANGED <<raw, gcs, deliveries, acked>>

(* ResourceExhaustedError: its text is posted, and not logged.             *)
TellExhausted(t) ==
    /\ At(t, "exhausted")
    /\ Post(t, Text("exhausted"), 1, "done")
    /\ UNCHANGED <<raw, gcs, deliveries, acked, log>>

(* The instance is shut down or dies; nothing brings the turn back.        *)
InstanceLost(t) ==
    /\ t \in Running
    /\ Goto(t, "lost")
    /\ UNCHANGED <<raw, gcs, deliveries, acked, log>>

TurnStep(t) ==
    \/ ReadProfile(t) \/ FindUser(t) \/ OpenConversation(t)
    \/ TellUnreadable(t) \/ Judge(t) \/ Download(t) \/ Stage(t) \/ Refuse(t)
    \/ Ask(t) \/ RunEnds(t) \/ PostReply(t) \/ RecordReply(t)
    \/ TellExhausted(t)

(* Every turn is over; the platform may still have a request to make.      *)
Quiet == Running = {} /\ UNCHANGED vars

Next ==
    \/ \E m \in Messages : Receive(m)
    \/ \E t \in Turns : TurnStep(t) \/ InstanceLost(t)
    \/ Quiet

(* The event loop comes back to a task whose call returned, and every call *)
(* returns or raises.                                                      *)
Spec == Init /\ [][Next]_vars /\ \A t \in Turns : WF_vars(TurnStep(t))

-----------------------------------------------------------------------------
(* A reply in the conversation log was seen by the user as it stands       *)
(* there: all its parts were posted before it was logged.                  *)
LoggedWasSeen ==
    \A e \in log : e.direction = "outbound" =>
        \A k \in 1 .. turn[e.turn].parts :
            \E i \in DOMAIN turn[e.turn].posts :
                turn[e.turn].posts[i] = [text |-> e.text, part |-> k]

(* A message of Slack is put to the agent at most once, however often and  *)
(* however late Slack makes its request again.                             *)
SlackAskedOnce ==
    \A t, u \in Turns :
        /\ t[1] = u[1] /\ Of(t).on = "slack"
        /\ turn[t] # Nothing /\ turn[u] # Nothing
        /\ turn[t].asked # Nothing /\ turn[u].asked # Nothing
        => t = u

(* The agent and the user are told the same of the files: an agent that is *)
(* called has the single readable file when there is one and a bucket to   *)
(* put it in, never one of several, and hears that others were removed     *)
(* exactly when the user heard it.                                         *)
AgentSeesTheFile ==
    \A t \in Turns : turn[t] # Nothing /\ turn[t].asked # Nothing =>
        LET e == EventOf(t) IN
        /\ ~Many(e)
        /\ turn[t].asked.file <=> gcs /\ Readable(e) # {}
        /\ turn[t].asked.note <=> \E i \in DOMAIN turn[t].posts :
                turn[t].posts[i].text = Text("unreadable")

(* A turn gives one answer: the reply, a refusal or the word that the      *)
(* quota is exhausted, never two of them, and without an error exactly one.*)
(* A turn that refuses has not called the agent.                           *)
OneAnswerPerTurn ==
    \A t \in Turns : turn[t] # Nothing =>
        LET answers == {turn[t].posts[i].text : i \in DOMAIN turn[t].posts}
                         \ {Text("unreadable")}
        IN  /\ Cardinality(answers) <= 1
            /\ turn[t].step \in {"done", "rejected"} => answers # {}
            /\ (\E a \in answers : a.kind \in Refusals) =>
                  turn[t].asked = Nothing

(* The reply is what the agent said last.  When it said words after its    *)
(* last tool call the reply is all of those and none of what it thought    *)
(* aloud before; any other words are better than a fallback message.       *)
ReplyIsTheLastWord ==
    \A t \in Turns : turn[t] # Nothing /\ turn[t].stream # Nothing =>
        LET s == turn[t].stream
            words == {i \in DOMAIN s : s[i].text = "words"}
            last == {i \in words : \A j \in i .. Len(s) : s[j].tool = "none"}
            said == turn[t].reply.said
        IN  /\ said \cap words = IF last # {} THEN last ELSE words
            /\ turn[t].reply.kind = "words" <=> words # {}

(* Every turn that an endpoint accepted comes to an end.                   *)
AcceptedTurnsEnd ==
    \A t \in Turns :
        turn[t] # Nothing ~> turn[t] # Nothing /\ turn[t].step \in Ended
=============================================================================
