------------------------------ MODULE MCRelay -------------------------------
(* Instances of Relay for TLC: a message of every kind the platforms send, *)
(* and the runs of an agent up to two chunks long, with a few longer ones. *)
EXTENDS Relay

Image == [mime |-> "image", kind |-> "attachment",
          big |-> FALSE, sized |-> TRUE, ref |-> TRUE]
Pdf == [Image EXCEPT !.mime = "pdf"]
Photo == [Image EXCEPT !.kind = "photo"]
Upload == [Image EXCEPT !.kind = "uploaded"]

Plain(p) == [on |-> p, bot |-> FALSE, edited |-> FALSE, album |-> FALSE,
             words |-> "text", files |-> <<>>]
With(p, files) == [Plain(p) EXCEPT !.files = files]

Wires ==
    {Plain("slack"), With("slack", <<Image>>), With("slack", <<Image, Pdf>>),
      With("slack", <<Image, Image>>),
      With("slack", <<[Image EXCEPT !.big = TRUE]>>),
      [Plain("slack") EXCEPT !.edited = TRUE],
      [With("telegram", <<Photo>>) EXCEPT !.words = "caption"],
      [With("telegram", <<Photo>>) EXCEPT !.album = TRUE],
      With("telegram", <<[Pdf EXCEPT !.kind = "document"]>>),
      [With("telegram", <<[Image EXCEPT !.kind = "sticker"]>>)
          EXCEPT !.words = "none"],
      With("google_chat", <<[Upload EXCEPT !.big = TRUE],
                            [Pdf EXCEPT !.kind = "drive"]>>),
      With("google_chat", <<[Upload EXCEPT !.ref = FALSE]>>),
      Plain("discord"),
      With("discord", <<Image, [Image EXCEPT !.ref = FALSE]>>)}

Chunk(text, tool) == [text |-> text, tool |-> tool]
Says == Chunk("words", "none")
Calls == Chunk("none", "call")
Thinks == Chunk("words", "call")
Answered == Chunk("none", "ok")
Fails(e) == Chunk("none", e)

Runs ==
    {<<>>, <<Says>>, <<Chunk("blank", "none")>>, <<Calls>>, <<Thinks>>,
     <<Says, Says>>, <<Thinks, Answered>>, <<Calls, Answered>>,
     <<Thinks, Answered, Says>>, <<Thinks, Answered, Chunk("blank", "none")>>,
     <<Calls, Fails("error"), Fails("rate_limit")>>,
     <<Calls, Fails("error"), Fails("access_denied")>>,
     <<Calls, Fails("error"), Says>>}
=============================================================================
