--------------------------- MODULE PlatformEvents ---------------------------
(***************************************************************************)
(* What each platform's endpoint and connector make of a webhook request:  *)
(* how the request may be answered, and the event a message becomes.  A    *)
(* message as its platform sends it is a record of Wire; the processor     *)
(* sees the event alone.                                                   *)
(***************************************************************************)
EXTENDS Integers, Sequences

Platforms == {"slack", "telegram", "google_chat", "discord"}

CONSTANT Mimes   \* media types of attachments

DriveMime == "application/x-google-drive-file"

Kinds == {"photo", "document", "sticker", "uploaded", "drive", "attachment"}

(* kind is what the platform calls the attachment; sized: its size comes   *)
(* with the event; ref: so does a reference it can be fetched by.          *)
Attachments ==
    [mime : Mimes \cup {DriveMime}, kind : Kinds,
     big : BOOLEAN, sized : BOOLEAN, ref : BOOLEAN]

(* words is where the user's words are: in the text, in a photo's caption. *)
Wire ==
    [on : Platforms, bot : BOOLEAN, edited : BOOLEAN, album : BOOLEAN,
     words : {"text", "caption", "none"}, files : Seq(Attachments)]

Events == [words : BOOLEAN, album : BOOLEAN, files : Seq(Attachments)]

-----------------------------------------------------------------------------
(* Answers to a request.  "accepted": 200, and a turn runs in the          *)
(* background.  "ignored": 200 and nothing else, which is also what an     *)
(* unknown agent, a missing token or an error of the handler gets.         *)

\* Mutant: a retry is taken for a new message.
SlackAnswersRetries(m, retry) ==
    IF m.bot \/ m.edited THEN {"ignored"}
    ELSE {"ignored", "unauthorized", "accepted"}

(* A request that Slack makes again is answered, and not looked at.        *)
SlackAnswers(m, retry) ==
    IF retry \/ m.bot \/ m.edited THEN {"ignored"}
    ELSE {"ignored", "unauthorized", "accepted"}

TelegramAnswers(m) ==
    IF m.bot \/ m.edited THEN {"ignored"}
    ELSE {"ignored", "unauthorized", "accepted"}

GoogleChatAnswers(m) ==
    IF m.bot THEN {"ignored"} ELSE {"ignored", "accepted"}

(* The worker forwards no bot's message and no edit; the endpoint turns    *)
(* away what it cannot take with an error status.                          *)
DiscordAnswers(m) ==
    IF m.bot \/ m.edited THEN {} ELSE {"refused", "unauthorized", "accepted"}

Answers(m, retry) ==
    CASE m.on = "slack"       -> SlackAnswers(m, retry)
      [] m.on = "telegram"    -> TelegramAnswers(m)
      [] m.on = "google_chat" -> GoogleChatAnswers(m)
      [] m.on = "discord"     -> DiscordAnswers(m)

(* Who sends a request again when no 200 came back.                        *)
Redelivers(m) == m.on \in {"slack", "telegram"}

-----------------------------------------------------------------------------
SlackEvent(m) ==
    [words |-> m.words # "none", album |-> FALSE, files |-> m.files]

(* Only "text" is read, never "caption"; photos, documents, videos and     *)
(* voice are attachments, anything else is not seen.                       *)
TelegramEvent(m) ==
    [words |-> m.words = "text",
     album |-> m.album,
     files |-> SelectSeq(m.files, LAMBDA f : f.kind \in {"photo", "document"})]

(* An upload comes without its size, anything else cannot be fetched.      *)
GoogleChatFile(f) ==
    [f EXCEPT !.sized = FALSE,
              !.ref = f.kind = "uploaded" /\ f.ref,
              !.mime = IF f.kind = "drive" THEN DriveMime ELSE f.mime]

GoogleChatEvent(m) ==
    [words |-> m.words # "none", album |-> FALSE,
     files |-> [i \in DOMAIN m.files |-> GoogleChatFile(m.files[i])]]

(* An attachment without a URL is left out.                                *)
DiscordEvent(m) ==
    [words |-> m.words # "none", album |-> FALSE,
     files |-> SelectSeq(m.files, LAMBDA f : f.ref)]

Event(m) ==
    CASE m.on = "slack"       -> SlackEvent(m)
      [] m.on = "telegram"    -> TelegramEvent(m)
      [] m.on = "google_chat" -> GoogleChatEvent(m)
      [] m.on = "discord"     -> DiscordEvent(m)

-----------------------------------------------------------------------------
(* Calls of a connector that may fail.  A profile that cannot be read is   *)
(* the bare user id, except on Slack, where that holds for the API's own   *)
(* errors only; Slack alone calls its API to open the conversation of an   *)
(* event, which names its channel.  Every post may raise, every download   *)
(* may end in a FileDownloadError.                                         *)
SlackFailures == {"profile", "open", "post", "download"}
TelegramFailures == {"post", "download"}
GoogleChatFailures == {"post", "download"}
DiscordFailures == {"post", "download"}

FailuresOn(p) ==
    CASE p = "slack"       -> SlackFailures
      [] p = "telegram"    -> TelegramFailures
      [] p = "google_chat" -> GoogleChatFailures
      [] p = "discord"     -> DiscordFailures

MayFail(m, call) == call \in FailuresOn(m.on)

(* Discord splits a long text; elsewhere a text is one post.               *)
PostsFor(m, kind, max) ==
    IF m.on = "discord" /\ kind = "words" THEN 1 .. max ELSE {1}
=============================================================================
