------------------------------ MODULE JobStore ------------------------------
(***************************************************************************)
(* The collection of scheduled jobs and the calls that change it: the      *)
(* upsert of ScheduledJobService.create_job with its write-time guard,     *)
(* update_job, delete_job, and the callers: the scheduler MCP tools of the *)
(* agents, the REST API and the admin pages.  The executor's fields        *)
(* (lock, failures, retry) are JobExecution's and left out here.           *)
(*                                                                         *)
(* A call is one request, served once; it runs concurrently with others,   *)
(* one Firestore access at a time.  A document has the name of the call    *)
(* that inserted it, for Firestore draws a new id for every insert.        *)
(***************************************************************************)
EXTENDS FiniteSets

CONSTANTS
    Calls,        \* requests
    Agents,       \* agents with a scheduler key
    Users,        \* unified users
    Spellings,    \* names of jobs as callers write them, none of them blank
    Names,        \* names trimmed and case-folded
    NormalName,   \* spelling -> name
    Prompts,      \* prompts of jobs
    Kinds,        \* the operations called (a subset of AllKinds)
    ReadsFail,    \* TRUE: get_scheduled_job may answer None after an error
    Nothing       \* None

AllKinds == {"create", "update", "set_enabled", "patch", "delete", "remove"}

(* The operations of the MCP tools, which act on jobs of their own agent   *)
(* only; "patch" and "remove" are the REST API and the admin pages.        *)
Tools == {"update", "set_enabled", "delete"}

Fields == {"name", "prompt", "schedule", "enabled"}

ASSUME StoreAssumption ==
    /\ Kinds \subseteq AllKinds
    /\ ReadsFail \in BOOLEAN
    /\ Nothing \notin Spellings \cup Prompts \cup BOOLEAN
    /\ NormalName \in [Spellings -> Names]
    /\ Nothing \notin Names
    /\ Nothing \notin Agents \X Users \X Names

VARIABLES
    docs,      \* job id -> document, Nothing when there is none
    pc,        \* call -> the access it makes next, or how it ended
    request,   \* call -> its arguments
    target,    \* call -> the job it works on
    known,     \* call -> update_scheduled_job found the current document
    with,      \* history: call -> the calls in flight when it began
    renamed    \* history: jobs whose name an update has written

vars == <<docs, pc, request, target, known, with, renamed>>

Ended == {"done", "missing", "failed"}
InFlight == {c \in Calls : pc[c] \notin Ended \cup {"idle"}}
Stored == {d \in Calls : docs[d] # Nothing}

(* What a caller sends; a field it leaves out is Nothing.  "schedule" is   *)
(* schedule and timezone, whose values nothing here tells apart.           *)
Request ==
    [kind : Kinds, agent : Agents, user : Users,
     name : Spellings \cup {Nothing}, prompt : Prompts \cup {Nothing},
     schedule : {TRUE, Nothing}, enabled : BOOLEAN \cup {Nothing}]

Given(r) == {f \in Fields : r[f] # Nothing}

\* Mutant: names are compared as they are written.
NormalizeExact(n) == n

(* normalize_job_name, of a name or of none.                               *)
Normalize(n) == IF n = Nothing THEN Nothing ELSE NormalName[n]

\* Mutant: a key is made of whatever name there is.
IdentityKeyAlways(agent, user, n) ==
    <<agent, user, IF n = Nothing THEN Nothing ELSE NormalName[n]>>

(* job_identity_key: no key without a name.                                *)
IdentityKey(agent, user, n) ==
    IF Normalize(n) = Nothing THEN Nothing ELSE <<agent, user, Normalize(n)>>

(* A document that ScheduledJob accepts: a name may be null, nothing else. *)
Parses(doc) == doc.prompt # Nothing /\ doc.enabled # Nothing

(* get_scheduled_job finds the job d.                                      *)
Readable(d) == d \in Stored /\ Parses(docs[d])

(* The fields a call writes.  The upsert of create_job writes all of them  *)
(* and enables the job; the MCP tool update_scheduled_reminder passes None *)
(* for what its caller left out, and model_dump(exclude_unset=True) keeps  *)
(* that; the other updates write what they were given.                     *)
Written(r) ==
    IF r.kind \in {"create", "update"} THEN Fields
    ELSE IF r.kind = "set_enabled" THEN {"enabled"}
    ELSE Given(r)

\* Mutant: an update that leaves enabled out enables the job.
NewValueEnables(r, f) ==
    IF f = "enabled" /\ (r.kind = "create" \/ r[f] = Nothing) THEN TRUE ELSE r[f]

NewValue(r, f) ==
    IF r.kind = "create" /\ f = "enabled" THEN TRUE ELSE r[f]

(* The document after update_scheduled_job, whose identity key follows the *)
(* name if the current document could be read.                             *)
Updated(doc, r, hasCurrent) ==
    LET value(f) == IF f \in Written(r) THEN NewValue(r, f) ELSE doc[f]
    IN  [doc EXCEPT !.name = value("name"),
                    !.prompt = value("prompt"),
                    !.enabled = value("enabled"),
                    !.key = IF "name" \in Written(r) /\ hasCurrent
                            THEN IdentityKey(doc.agent, doc.user, value("name"))
                            ELSE @]

-----------------------------------------------------------------------------
Doc ==
    [agent : Agents, user : Users, name : Spellings \cup {Nothing},
     prompt : Prompts \cup {Nothing}, enabled : BOOLEAN \cup {Nothing},
     key : (Agents \X Users \X Names) \cup {Nothing}]

Init ==
    /\ docs = [d \in Calls |-> Nothing]
    /\ pc = [c \in Calls |-> "idle"]
    /\ request = [c \in Calls |-> Nothing]
    /\ target = [c \in Calls |-> Nothing]
    /\ known = [c \in Calls |-> FALSE]
    /\ with = [c \in Calls |-> {}]
    /\ renamed = {}

(* A request arrives: one of the tools, of the REST API or of the admin    *)
(* pages.  It names a job its caller was told of, which may be gone since. *)
Begin(c) ==
    /\ pc[c] = "idle"
    /\ \E r \in Request :
          /\ request' = [request EXCEPT ![c] = r]
          /\ IF r.kind = "create"
             THEN /\ Given(r) = Fields
                  /\ pc' = [pc EXCEPT ![c] = "lookup"]
                  /\ UNCHANGED target
             ELSE /\ r.kind \in {"delete", "remove"} => Given(r) = {}
                  /\ r.kind = "set_enabled" => Given(r) = {"enabled"}
                  /\ \E d \in Calls :
                        /\ pc[d] = "done" /\ request[d].kind = "create"
                        /\ target[d] = Nothing
                        /\ target' = [target EXCEPT ![c] = d]
                  /\ pc' = [pc EXCEPT ![c] =
                               IF r.kind \in Tools THEN "load" ELSE "get"]
    /\ with' = [with EXCEPT ![c] = InFlight]
    /\ UNCHANGED <<docs, known, renamed>>

(* _find_existing_job: the strict list of the jobs of one user and agent,  *)
(* which raises when a document does not parse.                            *)
LookUp(c) ==
    LET r == request[c]
        listed == {d \in Stored : docs[d].agent = r.agent /\ docs[d].user = r.user}
        same == {d \in listed : Normalize(docs[d].name) = Normalize(r.name)}
    IN  /\ pc[c] = "lookup"
        /\ \/ /\ \E d \in listed : ~ Parses(docs[d])
              /\ pc' = [pc EXCEPT ![c] = "failed"]
              /\ UNCHANGED target
           \/ /\ \A d \in listed : Parses(docs[d])
              /\ \E d \in same :
                    /\ target' = [target EXCEPT ![c] = d]
                    /\ pc' = [pc EXCEPT ![c] = "current"]
           \/ /\ \A d \in listed : Parses(docs[d])
              /\ same = {}
              /\ pc' = [pc EXCEPT ![c] = "guard"]
              /\ UNCHANGED target
        /\ UNCHANGED <<docs, request, known, with, renamed>>

(* create_scheduled_job: the query on identity_key, then the insert.       *)
Guard(c) ==
    LET r == request[c]
        key == IdentityKey(r.agent, r.user, r.name)
    IN  /\ pc[c] = "guard"
        /\ pc' = [pc EXCEPT ![c] =
                     IF \E d \in Stored : docs[d].key = key
                     THEN "failed" ELSE "insert"]
        /\ UNCHANGED <<docs, request, target, known, with, renamed>>

Insert(c) ==
    LET r == request[c]
    IN  /\ pc[c] = "insert"
        /\ docs' = [docs EXCEPT ![c] =
              [agent |-> r.agent, user |-> r.user, name |-> r.name,
               prompt |-> r.prompt, enabled |-> r.enabled,
               key |-> IdentityKey(r.agent, r.user, r.name)]]
        /\ pc' = [pc EXCEPT ![c] = "done"]
        /\ UNCHANGED <<request, target, known, with, renamed>>

(* _load_owned_job of the tools: the job must be the agent's own.          *)
Owned(c) == Readable(target[c]) /\ docs[target[c]].agent = request[c].agent

Load(c) ==
    /\ pc[c] = "load"
    /\ \/ /\ Owned(c)
          /\ pc' = [pc EXCEPT ![c] = "get"]
       \/ /\ ReadsFail \/ ~ Owned(c)
          /\ pc' = [pc EXCEPT ![c] = "missing"]
    /\ UNCHANGED <<docs, request, target, known, with, renamed>>

(* update_job and delete_job: the job must be there; a schedule or a       *)
(* timezone that is None is refused.                                       *)
Get(c) ==
    LET r == request[c]
        next == IF r.kind \in {"delete", "remove"} THEN "delete"
                ELSE IF "schedule" \in Written(r) /\ NewValue(r, "schedule") = Nothing
                     THEN "failed"
                ELSE IF "name" \in Written(r) THEN "current" ELSE "write"
    IN  /\ pc[c] = "get"
        /\ \/ /\ Readable(target[c])
              /\ pc' = [pc EXCEPT ![c] = next]
           \/ /\ ReadsFail \/ ~ Readable(target[c])
              /\ pc' = [pc EXCEPT ![c] = "missing"]
        /\ UNCHANGED <<docs, request, target, known, with, renamed>>

(* update_scheduled_job reads the current document to compute the key.     *)
ReadCurrent(c) ==
    /\ pc[c] = "current"
    /\ \E k \in {Readable(target[c]), Readable(target[c]) /\ ~ ReadsFail} :
          known' = [known EXCEPT ![c] = k]
    /\ pc' = [pc EXCEPT ![c] = "write"]
    /\ UNCHANGED <<docs, request, target, with, renamed>>

\* Mutant: the write is a merge, which creates a document that is gone.
WriteMerge(c) ==
    LET d == target[c]
        r == request[c]
        found == IF d \in Stored THEN docs[d]
                 ELSE [agent |-> r.agent, user |-> r.user, name |-> Nothing,
                       prompt |-> Nothing, enabled |-> Nothing, key |-> Nothing]
    IN  /\ pc[c] = "write"
        /\ docs' = [docs EXCEPT ![d] = Updated(found, r, known[c])]
        /\ pc' = [pc EXCEPT ![c] = "done"]
        /\ renamed' = IF r.kind # "create" /\ "name" \in Written(r)
                      THEN renamed \cup {d} ELSE renamed
        /\ UNCHANGED <<request, target, known, with>>

(* The update itself, which raises for a document that is gone.            *)
Write(c) ==
    LET d == target[c]
        r == request[c]
    IN  /\ pc[c] = "write"
        /\ \/ /\ d \notin Stored
              /\ pc' = [pc EXCEPT ![c] = "failed"]
              /\ UNCHANGED <<docs, renamed>>
           \/ /\ d \in Stored
              /\ docs' = [docs EXCEPT ![d] = Updated(@, r, known[c])]
              /\ pc' = [pc EXCEPT ![c] = "done"]
              /\ renamed' = IF r.kind # "create" /\ "name" \in Written(r)
                            THEN renamed \cup {d} ELSE renamed
        /\ UNCHANGED <<request, target, known, with>>

(* delete_scheduled_job: deleting what is gone already is no error.        *)
Delete(c) ==
    /\ pc[c] = "delete"
    /\ docs' = [docs EXCEPT ![target[c]] = Nothing]
    /\ pc' = [pc EXCEPT ![c] = "done"]
    /\ UNCHANGED <<request, target, known, with, renamed>>

(* An access raises, or the instance goes: the call ends where it is.      *)
Raise(c) ==
    /\ c \in InFlight
    /\ pc' = [pc EXCEPT ![c] = "failed"]
    /\ UNCHANGED <<docs, request, target, known, with, renamed>>

(* The collection rests when no request is left.                           *)
Next ==
    \E c \in Calls :
       \/ Begin(c)
       \/ LookUp(c)
       \/ Guard(c)
       \/ Insert(c)
       \/ Load(c)
       \/ Get(c)
       \/ ReadCurrent(c)
       \/ Write(c)
       \/ Delete(c)
       \/ Raise(c)

Spec == Init /\ [][Next]_vars

-----------------------------------------------------------------------------
TypeOK ==
    /\ docs \in [Calls -> Doc \cup {Nothing}]
    /\ pc \in [Calls -> Ended \cup {"idle", "lookup", "guard", "insert", "load",
                                  "get", "current", "write", "delete"}]
    /\ request \in [Calls -> Request \cup {Nothing}]
    /\ \A c \in Calls : pc[c] # "idle" => request[c] \in Request
    /\ target \in [Calls -> Calls \cup {Nothing}]
    /\ \A c \in Calls :
          pc[c] \in {"load", "get", "current", "write", "delete"}
             => target[c] \in Calls
    /\ known \in [Calls -> BOOLEAN]
    /\ with \in [Calls -> SUBSET Calls]
    /\ renamed \in SUBSET Calls

Overlapped(c, e) == c \in with[e] \/ e \in with[c]

(* Two jobs of one agent, user and normalized name were inserted by calls  *)
(* that overlapped, unless an update has given one of them its name: a     *)
(* create that begins when another has ended finds the job, whatever       *)
(* updates, deletions and failures go on beside it.                        *)
DuplicatesOnlyFromOverlaps ==
    \A d, e \in Stored \ renamed :
       d # e /\ docs[d].agent = docs[e].agent /\ docs[d].user = docs[e].user
       /\ NormalName[docs[d].name] = NormalName[docs[e].name]
          => Overlapped(d, e)

(* A deleted job stays deleted: an update under way when it was deleted    *)
(* does not bring it back.  A document appears only by its own insert.     *)
DeletedStaysDeleted ==
    [][\A d \in Calls : docs[d] = Nothing /\ docs'[d] # Nothing
          => pc[d] = "insert"]_vars

(* A paused job is resumed only by a call that asks for it: an update of   *)
(* other fields, decided before the pause, does not undo it.               *)
PausesHold ==
    [][\A d \in Stored : docs[d].enabled = FALSE /\ docs'[d] # Nothing
                          /\ docs'[d].enabled = TRUE
          => \E c \in Calls : /\ target[c] = d /\ pc[c] = "write"
                              /\ \/ request[c].kind = "create"
                                 \/ request[c].enabled = TRUE]_vars

(* "Only the fields you pass are changed; everything else is preserved."   *)
PartialUpdatesPreserve ==
    [][\A d \in Stored, c \in Calls :
          pc[c] = "write" /\ pc'[c] = "done" /\ target[c] = d
          /\ request[c].kind # "create"
          => \A f \in {"name", "prompt", "enabled"} \ Given(request[c]) :
                docs'[d][f] = docs[d][f]]_vars
=============================================================================
