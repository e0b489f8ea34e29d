------------------------------ MODULE History -------------------------------
(***************************************************************************)
(* The log of one conversation and an agent reading it back through the    *)
(* history MCP server: get_messages pages through a range of time,         *)
(* search_history finds a message and get_context shows what was around    *)
(* it, while messages go on being logged and expire.                       *)
(*                                                                         *)
(* record_message stamps a message before it is written, so messages may   *)
(* be stored in another order than they are stamped; two may carry the     *)
(* same time.  What a message says is a member of Texts: the room it takes *)
(* in a response, how well it matches the query, and whether the stored    *)
(* document still validates as a LoggedMessage.                            *)
(***************************************************************************)
EXTENDS Integers, FiniteSets

CONSTANTS
    Messages,   \* document ids: numbers, as the query breaks ties by id
    Texts,      \* records [size, score, valid]
    MaxClock,   \* bound: the last tick of the clock
    Retention,  \* RETENTION: ticks until a message may be deleted
    From, To,   \* the range asked for
    Limits,     \* limits a caller gives: messages on a page, hits of a search
    AroundBefore, AroundAfter,  \* before, after: messages on each side of the hit
    Cap,        \* RESPONSE_CHAR_CAP, less what every response has
    Nothing     \* None

ASSUME HistoryAssumption ==
    /\ Messages \subseteq Nat
    /\ IsFiniteSet(Messages)
    /\ Texts \subseteq [size : Nat \ {0}, score : Nat, valid : BOOLEAN]
    /\ {MaxClock, Retention, From, To, AroundBefore, AroundAfter, Cap}
           \subseteq Nat
    /\ Limits \subseteq Nat \ {0}
    /\ Nothing \notin Texts \cup Nat

VARIABLES
    clock,
    status,  \* message -> none, stamped, stored, lost or expired
    at,      \* message -> created_at
    text,    \* message -> what it says
    call,    \* what the agent is doing: tool and the step it is at
    cursor,  \* next_cursor of the last page
    page,    \* messages on the last page, or around the hit
    seen,    \* history: messages on the pages before
    begun,   \* history: messages stored when the agent began
    anchor   \* the hit that is looked at

logVars == <<status, at, text>>
vars == <<clock, logVars, call, cursor, page, seen, begun, anchor>>

Times == 0 .. MaxClock
Stored == {m \in Messages : status[m] = "stored"}
Valid(S) == {m \in S : text[m].valid}

(* The order of a query: created_at, then the id.                          *)
Before(m, n) == at[m] < at[n] \/ (at[m] = at[n] /\ m < n)

(* The first and the last k of S: limit(k), in one direction or the other. *)
FirstOf(S, k) == {m \in S : Cardinality({n \in S : Before(n, m)}) < k}
LastOf(S, k) == {m \in S : Cardinality({n \in S : Before(m, n)}) < k}

(* The room S takes, counted unit by unit.                                 *)
Size(S) == Cardinality(UNION {{m} \X (1 .. text[m].size) : m \in S})

-----------------------------------------------------------------------------
TypeOK ==
    /\ clock \in Times
    /\ status \in [Messages -> {"none", "stamped", "stored", "lost", "expired"}]
    /\ at \in [Messages -> Times]
    /\ text \in [Messages -> Texts \cup {Nothing}]
    /\ call \in {"idle", "paging", "paged", "hits", "found", "before", "context"}
    /\ cursor \in Times \cup {Nothing}
    /\ {page, seen, begun} \subseteq SUBSET Messages
    /\ anchor \in Messages \cup {Nothing}
    /\ call \in {"found", "before", "context"} => anchor \in Messages

Init ==
    /\ clock = 0
    /\ status = [m \in Messages |-> "none"]
    /\ at = [m \in Messages |-> 0]
    /\ text = [m \in Messages |-> Nothing]
    /\ call = "idle"
    /\ cursor = Nothing
    /\ page = {} /\ seen = {} /\ begun = {}
    /\ anchor = Nothing

-----------------------------------------------------------------------------
(* The relay: record_message and the retention policy. *)

Tick ==
    /\ clock < MaxClock
    /\ clock' = clock + 1
    /\ UNCHANGED <<logVars, call, cursor, page, seen, begun, anchor>>

(* LoggedMessage takes its created_at when it is made ...                  *)
Stamp(m) ==
    \E x \in Texts :
        /\ status[m] = "none"
        /\ status' = [status EXCEPT ![m] = "stamped"]
        /\ at' = [at EXCEPT ![m] = clock]
        /\ text' = [text EXCEPT ![m] = x]
        /\ UNCHANGED <<clock, call, cursor, page, seen, begun, anchor>>

(* ... and append_message stores it, or fails and is only logged.          *)
Append(m) ==
    /\ status[m] = "stamped"
    /\ \E to \in {"stored", "lost"} : status' = [status EXCEPT ![m] = to]
    /\ UNCHANGED <<clock, at, text, call, cursor, page, seen, begun, anchor>>

(* The TTL policy on expires_at deletes a document some time after it.     *)
Expire(m) ==
    /\ status[m] = "stored"
    /\ clock > at[m] + Retention
    /\ status' = [status EXCEPT ![m] = "expired"]
    /\ UNCHANGED <<clock, at, text, call, cursor, page, seen, begun, anchor>>

-----------------------------------------------------------------------------
\* Mutant: the next page begins with the message the last one ended with.
InRangeInclusive(after) ==
    {m \in Stored : at[m] <= To /\ at[m] >= IF after = Nothing THEN From ELSE after}

(* list_messages: strictly after the cursor.                               *)
InRange(after) ==
    {m \in Stored : at[m] <= To /\ IF after = Nothing THEN at[m] >= From ELSE at[m] > after}

(* _fit_under_cap: messages are dropped from the end until the rest fits.  *)
Fitting(rows) ==
    {m \in rows : Size({n \in rows : ~ Before(m, n)}) <= Cap}

Last(S) == {m \in S : \A n \in S : ~ Before(m, n)}

\* Mutant: the cursor is of the last message read, shown or not.
NextCursorOfRead(rows, shown, more) ==
    \/ /\ shown # {} /\ (more \/ shown # rows)
       /\ \E m \in Last(rows) : cursor' = at[m]
    \/ /\ shown = {} \/ (~ more /\ shown = rows)
       /\ cursor' = Nothing

(* next_cursor: when there is more, the time of the last message shown.    *)
NextCursor(rows, shown, more) ==
    \/ /\ shown # {} /\ (more \/ shown # rows)
       /\ \E m \in Last(shown) : cursor' = at[m]
    \/ /\ shown = {} \/ (~ more /\ shown = rows)
       /\ cursor' = Nothing

(* get_messages reads one message more than a page holds, to know whether  *)
(* there are more; a document that does not validate counts for the limit  *)
(* of the query and is then skipped.                                       *)
ShowPage(after) ==
    \E limit \in Limits :
        LET read == Valid(FirstOf(InRange(after), limit + 1))
            rows == FirstOf(read, limit)
            shown == Fitting(rows)
        IN  /\ NextCursor(rows, shown, Cardinality(read) > limit)
            /\ page' = shown
            /\ call' = IF cursor' = Nothing THEN "paged" ELSE "paging"

FirstPage ==
    /\ call = "idle"
    /\ ShowPage(Nothing)
    /\ begun' = Stored
    /\ UNCHANGED <<clock, logVars, seen, anchor>>

NextPage ==
    /\ call = "paging"
    /\ ShowPage(cursor)
    /\ seen' = seen \cup page
    /\ UNCHANGED <<clock, logVars, begun, anchor>>

-----------------------------------------------------------------------------
(* search_history ranks by score, then the newest first; a snippet takes   *)
(* one unit of a response.                                                 *)
Outranks(m, n) ==
    \/ text[m].score > text[n].score
    \/ text[m].score = text[n].score /\ at[m] > at[n]
    \/ text[m].score = text[n].score /\ at[m] = at[n] /\ m < n

Hits(limit) ==
    LET found == {m \in Valid(InRange(Nothing)) : text[m].score > 0}
        best(k) == {m \in found : Cardinality({n \in found : Outranks(n, m)}) < k}
    IN  best(limit) \cap best(Cap)

Search ==
    /\ call = "idle"
    /\ call' = "hits"
    /\ \E limit \in Limits : page' = Hits(limit)
    /\ UNCHANGED <<clock, logVars, cursor, seen, begun, anchor>>

(* get_context of a hit, which may have expired: the document, the         *)
(* messages before it and those after it are three reads.                  *)
GetMessage ==
    \E m \in page :
        /\ call = "hits"
        /\ IF m \in Stored
           THEN call' = "found" /\ anchor' = m /\ page' = {m}
           ELSE call' = "idle" /\ page' = {} /\ UNCHANGED anchor
        /\ begun' = Stored
        /\ UNCHANGED <<clock, logVars, cursor, seen>>

\* Mutant: the query is not turned round, and answers the oldest messages.
PrecedingOldest == FirstOf({m \in Stored : at[m] < at[anchor]}, AroundBefore)

Preceding == LastOf({m \in Stored : at[m] < at[anchor]}, AroundBefore)
Following == FirstOf({m \in Stored : at[m] > at[anchor]}, AroundAfter)

ReadBefore ==
    /\ call = "found"
    /\ call' = "before"
    /\ page' = page \cup Valid(Preceding)
    /\ UNCHANGED <<clock, logVars, cursor, seen, begun, anchor>>

(* drop_farthest sheds from the longer side, the later one if they are     *)
(* equal: so it passes from b messages before the hit and a after it, one  *)
(* by one, through these numbers left, down to the hit alone.              *)
Shedding(b, a) ==
    {k \in (0 .. b) \X (0 .. a) :
        \/ k[2] \in {k[1] - 1, k[1]}
        \/ k[1] = b /\ k[2] > b
        \/ k[2] = a /\ k[1] > a}

ReadAfter ==
    LET before == page \ {anchor}
        after == Valid(Following)
        left(k) == LastOf(before, k[1]) \cup {anchor} \cup FirstOf(after, k[2])
        all == Shedding(Cardinality(before), Cardinality(after))
        fits == {k \in all : Size(left(k)) <= Cap \/ k = <<0, 0>>}
    IN  /\ call = "before"
        /\ call' = "context"
        /\ \E k \in fits : /\ \A l \in fits : l[1] + l[2] <= k[1] + k[2]
                           /\ page' = left(k)
        /\ UNCHANGED <<clock, logVars, cursor, seen, begun, anchor>>

Next ==
    \/ Tick \/ \E m \in Messages : Stamp(m) \/ Append(m) \/ Expire(m)
    \/ FirstPage \/ NextPage
    \/ Search \/ GetMessage \/ ReadBefore \/ ReadAfter

(* An agent that pages asks for the next page as long as there is one.     *)
Spec == Init /\ [][Next]_vars /\ WF_vars(NextPage)

-----------------------------------------------------------------------------
(* Pages follow one another in time: a page is later than everything on    *)
(* the pages before it, whatever was logged or deleted in between, so that *)
(* no message is read twice.                                               *)
PagesAscend ==
    call \in {"paging", "paged"} => \A m \in seen, n \in page : at[m] < at[n]

(* When there is no next_cursor, everything in the range that was stored   *)
(* when the reading began, and still is, has been shown, except behind     *)
(* what the pages cannot get past: a document that does not validate, a    *)
(* message that fills a response alone, a time several messages share.     *)
Obstructed(m) ==
    \/ \E n \in Messages \ {m} :
          /\ status[n] \in {"stored", "expired"}
          /\ at[n] \in From .. at[m]
          /\ ~ text[n].valid \/ text[n].size > Cap
    \/ ~ text[m].valid \/ text[m].size > Cap
    \/ \E n \in Messages \ {m} : status[n] \in {"stored", "expired"} /\ at[n] = at[m]

ReadingIsComplete ==
    call = "paged" =>
        \A m \in begun \cap Stored :
            at[m] \in From .. To => m \in seen \cup page \/ Obstructed(m)

(* What get_context shows is a stretch of the conversation: of what was    *)
(* there from the first read to the last, nothing between two messages it  *)
(* shows is left out, except documents that do not validate and messages   *)
(* of the very time of the hit; and the hit is there.                      *)
ContextHasNoGap ==
    call = "context" =>
        /\ anchor \in page
        /\ \A m \in Valid(begun \cap Stored) :
              (\E n, o \in page : at[n] < at[m] /\ at[m] < at[o])
                  => m \in page \/ at[m] = at[anchor]

(* An agent that goes on paging comes to the end: every page with a        *)
(* next_cursor is a step ahead.                                            *)
PagingEnds == (call = "paging") ~> (call = "paged")
=============================================================================
