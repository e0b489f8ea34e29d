----------------------------- MODULE AgentReply -----------------------------
(***************************************************************************)
(* What the user is told of an agent's run.  A run is the stream of chunks *)
(* the Reasoning Engine sent back; a chunk holds text, words or only       *)
(* blanks, and may hold a tool call or a tool's answer.  A chunk that is   *)
(* no JSON counts as text.  The reply is either the text of some of the    *)
(* chunks or one of the processor's fallback messages.                     *)
(***************************************************************************)
EXTENDS Integers, Sequences

Errors == {"rate_limit", "access_denied", "error"}

Chunks == [text : {"none", "blank", "words"},
           tool : {"none", "call", "ok"} \cup Errors]

Text(kind) == [kind |-> kind, said |-> {}]

Fallbacks == {"no_response", "broken_tool", "no_images", "rephrase"} \cup Errors

-----------------------------------------------------------------------------
(* The text parts, and those in chunks after the last one with a tool.     *)
TextParts(s) == {i \in DOMAIN s : s[i].text # "none"}

FinalParts(s) ==
    {i \in TextParts(s) : \A j \in DOMAIN s : s[j].tool # "none" => j < i}

HasWords(s, parts) == \E i \in parts : s[i].text = "words"

\* Mutant: all the text parts, also those beside a tool call.
ExtractAllText(s) == TextParts(s)

(* Without words after the last tool call every text part is delivered.    *)
ExtractText(s) ==
    IF HasWords(s, FinalParts(s)) THEN FinalParts(s) ELSE TextParts(s)

FunctionErrors(s) == {s[i].tool : i \in DOMAIN s} \cap Errors

Called(s) == \E i \in DOMAIN s : s[i].tool = "call"

(* No call of the run was answered: one answer hides every missing one.    *)
HasUnansweredCalls(s) ==
    Called(s) /\ \A i \in DOMAIN s : s[i].tool \in {"none", "call"}

(* The message for a run that said nothing, the gravest reason first.      *)
Fallback(s, withFile) ==
    IF HasUnansweredCalls(s) THEN "no_response"
    ELSE IF FunctionErrors(s) # {}
         THEN IF "rate_limit" \in FunctionErrors(s) THEN "rate_limit"
              ELSE IF "access_denied" \in FunctionErrors(s)
                   THEN "access_denied" ELSE "error"
    ELSE IF Called(s) THEN "broken_tool"
    ELSE IF withFile THEN "no_images" ELSE "rephrase"

ReplyTo(s, withFile) ==
    IF HasWords(s, ExtractText(s))
    THEN [kind |-> "words", said |-> ExtractText(s)]
    ELSE Text(Fallback(s, withFile))
=============================================================================
