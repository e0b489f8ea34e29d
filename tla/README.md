# The Forum, in TLA+

The Forum relays messages between people on chat platforms (Slack, Google Chat,
Telegram, Discord) and agents hosted on Vertex AI Agent Engine. It runs as a
stateless web service on Cloud Run, many instances at a time, with Firestore as
its only memory. This directory holds TLA+ specifications of the parts of it
where the order of events matters, TLC configurations that check them on small
instances, and TLAPS proofs of the results that hold for every instance.

    tlc -config JobExecution_overlaps.cfg MCJobExecution
    tlapm JobExecutionProofs.tla

## The system

| component | where | state it keeps | operations |
|---|---|---|---|
| message turn | `message_processor_v2.py` | none but its locals | `process_platform_event`: find the session, recover from a run that was cut off, mark the run, call the agent, deliver the reply |
| session documents | `firestore_service.py`, `models/session.py` | `sessions/{user}_{agent}`: the Agent Engine session, `last_activity_at`, `active_run` | read (and expire), create, touch, mark, clear |
| run tracker | `run_tracker.py` | the marker in `active_run` | describe a marker, log `run_cut_off` |
| session healer | `session_healer.py` | none; it writes into Agent Engine sessions | list the tail, decide, list again, append |
| Agent Engine client | `vertex_ai_service.py` | cached clients | `create_session`, `send_message` |
| scheduled job executor | `scheduled_job_executor_v2.py` | none but its locals | `execute_job`: lock, read the job, run a turn, release |
| job lock and tracking | `firestore_service.py`, `models/scheduled_job.py` | `execution_started_at`, `last_execution_id`, `consecutive_failures`, `retry_at`, `last_execution_at` | acquire, release |
| dispatcher | `api/v1/scheduled_jobs.py`, `scheduled_job_service.py` | none | list the due jobs, execute them one after the other |
| job store | `scheduled_job_service.py`, `firestore_service.py`, `scheduler_mcp.py` | `scheduled_jobs/*` | upsert, update, rename, pause, delete |
| agent-to-agent queries | `agents_mcp.py`, `models/a2a_query.py` | `a2a_sessions/{caller,target,user}` and a receipt per query | query, late reply, status |
| identities | `identity_service.py`, `models/user.py`, `scripts/link_identities.py` | `users/*`: names, email, linked accounts | resolve, link, create; edit and link by hand |
| conversation log | `message_log.py`, `history_mcp.py` | `conversations/*/messages` | append, expire; search, look round a hit, page |
| event endpoints, connectors | `api/v1/*_events*.py`, `services/platforms/` | none | authenticate, parse, start a turn; send |
| reply and file rules | `vertex_ai_service.py`, `message_processor_v2.py` | none | judge, fetch and stage files; make a reply of the agent's stream |
| Discord worker | `discord-worker/worker.py` | the running clients, in memory | reconcile with the enabled bots, forward direct messages |
| admin UI, configuration, deployment | `api/admin/`, `config.py`, `terraform/`, `scripts/` | none | views, limits |

A turn is a coroutine. Between two of its `await`s it runs alone on its
instance; at each `await` any other turn, on this instance or another, may act,
the Agent Engine may go on with its own work, and Cloud Run may reclaim the
instance. Nothing in Firestore is written in a transaction. So the parts
interact only through shared documents that are read, thought about and then
written, and what is hard is always of one kind: what was read has changed by
the time it is used, or the coroutine that was to write next is gone.

- Turns of the same person with the same agent, from any platform and from
  scheduled jobs, share one session document with one marker slot.
- The healer writes into a session that the engine also writes into.
- An execution of a job shares the job document with every other execution, with
  the dispatchers, and with whoever edits, pauses or deletes the job.
- The engine does not notice that the Forum stopped listening. A run outlives the
  turn that started it.
- Turns of one person, from different platforms, look up and create the same user,
  while an operator edits it.
- A platform repeats a request it has no answer to; the turn runs after the answer,
  and nobody waits for it.
- An agent reads the log of a conversation in several reads while it is written.
- The worker opens connections for a configuration that it reads piece by piece.

What must be true, per component: a conversation continues in one Agent Engine
session; a tool call is answered once, by its own run or by the healer after that
run is over; cut-off runs are reported and others are not; executions of a job overlap
only where its lock has a known gap, its failures are counted, its lock never stays for ever; nobody
is taken for somebody else, and a person stays one user; what is read of the log has
no gaps; the user, the agent and the log are told the same; every direct message is
taken once, and every accepted turn ends.
`PROJECT.json` lists the hazards behind these, each at its line.

## The modules

| module | what it is |
|---|---|
| `SessionTail` | operators: what the healer reads off the tail of a session |
| `CallLedger` | abstract specification: how a tool call may be closed |
| `SessionRuns` | the turns of one user with one agent: document, marker, healer, engine |
| `MCSessionRuns` | symmetry and views for TLC |
| `SessionRunsProofs` | theorems about `SessionRuns` |
| `JobExecution` | one job document, its dispatchers and its callers |
| `MCJobExecution` | an instance for TLC |
| `JobExecutionProofs` | theorems about `JobExecution` |
| `JobStore` | the collection of scheduled jobs and the calls that change it |
| `MCJobStore` | symmetry and names for TLC |
| `JobStoreProofs` | theorems about `JobStore` |
| `DeliveryReceipt` | abstract specification: what a delivery receipt may claim |
| `A2AQuery` | the queries of one agent to another on behalf of one user |
| `MCA2AQuery` | symmetry and view for TLC |
| `A2AQueryProofs` | theorems about `A2AQuery` |
| `Identity` | the users, the messages being resolved to them, the operator |
| `MCIdentity`, `IdentityProofs` | people and accounts for TLC; theorems |
| `History` | the log of one conversation and an agent reading it |
| `MCHistory`, `HistoryProofs` | messages for TLC; theorems |
| `DiscordWorker` | the worker, its bots and the messages they forward |
| `MCDiscordWorker`, `DiscordWorkerProofs` | addressees for TLC; theorems |
| `PlatformEvents` | operators: what the endpoints and connectors make of a request |
| `AgentReply` | operators: what the user is told of an agent's stream |
| `Relay` | a message from its webhook request to the logged reply, over the two |
| `MCRelay`, `RelayProofs` | messages and streams for TLC; theorems |

### SessionRuns

Every turn is a member of `Messages` or `Jobs` and has a program counter whose
values are the `await`s of the code:

    idle -> touch -------> list -> recheck -> append -> mark -> send -> wait -> reply -> done
         -> drop -> store ----------------------------> mark

| pc | the `await` it stands for |
|---|---|
| `touch` | `update_session_platforms`; recovery up to the healer's first call follows at once |
| `drop` | the `delete` of an expired document inside `get_session_by_user` |
| `store` | `create_session_for_user` after a new Agent Engine session was made |
| `list`, `recheck`, `append` | the three calls of `SessionHealer.heal` |
| `mark` | `mark_run_started` |
| `send`, `wait` | `send_message`: handing over the prompt, waiting for the end of the stream |
| `reply` | the connector's `send_message` |
| `lost` | the turn ended early: the instance is gone, or a call before the run raised |

The document is `sess`, `activity` and `mark`. What a turn remembers between its
`await`s is `readAt`, `vs`, `snap` (the marker as it was read), `orphans` and
`tailLen` (what the healer decided). `engine[t]` is the run the turn started,
which goes on by itself: it calls a tool, the tool answers, the model replies, or
it ends without a reply. A run makes at most one tool call, and the call bears
the name of its turn; `log[s]` is the list of events of session `s`, named after
the turn that made it. `reports`, `lastTalk` and `prev` are there for the
properties only: which runs were logged as cut off, and which turn the user last
heard from.

A reply or a new marker ends in `done` with whatever was said to the user;
canned error messages are not replies. The model provider refuses a history in
which a call has no answer, or two, or one out of its place: the answer comes directly
after the calls of its event, before anybody spoke or called again (`InPlace`, `Replayable`;
a long-running call may wait). Its own run then ends in `raised`.

`Faults` says which best-effort calls may fail with the document in place:
`read` (the read of the session, taken for an absent one), `drop`, `mark`,
`clear`. Calls that fail because the document is gone need no fault.

### CallLedger

A run is new, alive or over; its call is absent, open or closed. An open call is
closed by its run while that is alive, or by an interruption once it is over, and
never a second time. `SessionRuns` implements it under the mapping of `Ledger`
(`CallsFollowLedger`): the status of a call is the number of its answers in the
log, so a second answer, or an answer written for a live run, has no counterpart.

### JobExecution

A worker is a dispatcher (`/scheduled-jobs/process`, a fresh uuid per execution)
or a caller (`/scheduled-jobs/{id}/execute`, an id chosen by the caller).

    idle -> acquire -> take -> get -> run -> succeed -> clear -> idle
                                         -> fail -> count -> idle
                                         -> limited -> skip -> idle
                               get -> skip (disabled meanwhile)
                                                     clear -> blame -> blamed (error)

`acquire` and `take` are the read and the write of the lock; `count` is between
reading `consecutive_failures` and writing it back; `skip` is a release as a
success without a run, or after a 429. `blame` is the `except` clause reached
from the update that clears `retry_at`: the lock is already released, and is
released again, with a failure. `ListDue` and the lock are separate steps because
the dispatcher executes the jobs listed before this one in between.

Time is kept as ages (`lockAge`, `age`) and as three facts, whether the schedule
has come round (`due`) and whether a retry is waiting or due (`retry`), so that
behaviours can go on for ever and liveness can be checked. The conversation an
execution drives is `SessionRuns`; here only its outcome counts. An execution may live
for any time: an age stops at `LockTimeout`, beyond which it makes no difference. Any
number of workers may be between reading and writing the lock.

Four variables are there for the properties only. `failed` counts the failures as they
are recorded; it is what `failures` is compared with. `takenSince[w]` has the workers that
took the lock since `w` read it, `evicted` those whose lock somebody else has released
while they held it, and `crowded` says that executions have overlapped, or a failure was
recorded next to one, since a success that was recorded by one worker alone.

### JobStore

A call is one request: a tool of the scheduler MCP (`create`, `update`,
`set_enabled` for pause and resume, `delete`), or an endpoint of the REST API and the
admin pages (`create` too, `patch`, `remove`).

    create:  lookup -> guard -> insert -> done
                    -> current -> write -> done         (the upsert)
    tools:   load -> get -> current -> write -> done
    others:          get -> write, or delete -> done

| pc | the `await` it stands for |
|---|---|
| `lookup` | the strict list of `_find_existing_job` |
| `guard`, `insert` | the query on `identity_key` and the `set` of `create_scheduled_job` |
| `load` | `_load_owned_job` |
| `get` | the first read of `update_job` and `delete_job` |
| `current`, `write` | the read and the `update` of `update_scheduled_job` |
| `delete` | `delete_scheduled_job` |

A call ends in `done`, in `missing` (404, "not found") or in `failed` (it raised). A
document is what the upsert compares and what a partial update can spoil: owner,
name, prompt, enabled, key. A spelling is a name as it was written, `NormalName` what
`normalize_job_name` makes of it. A document whose prompt or enabled flag is null does
not parse (`Parses`), and then it fails the creates of its owner and is "not found"
to every update and deletion. `with` and `renamed` are there for the properties only.

`ReadsFail` lets every `get_scheduled_job` answer None, as it does on any error, and
`Raise` ends a call at any point. Left out are the checks of `create_job` that write
nothing, the separate write of `output_platform` by the admin form, an explicit null
or a blank name in a PATCH, and the read that follows every write.

### A2AQuery

A query is one call of `query_agent`:

    idle -> read -----------> mark -> open -> send -> wait -> tell -> done
         -> drop -> create ->                              -> drop (second attempt)
                                                           -> listen -> unmark -> done

| pc | the `await` it stands for |
|---|---|
| `read`, `drop`, `create` | `get_a2a_session`, `delete_a2a_session`, `_fresh_session` |
| `mark` | `mark_run_started`, after the healer where recovery calls it |
| `open` | the receipt is created, or reopened for a second attempt |
| `send`, `wait` | `send_message` as a task of its own, and `wait_for` |
| `tell` | the receipt is closed with `out` |
| `listen`, `unmark` | `collect_late_reply` after a timeout: the receipt, then the marker |

`run[q]` is what the engine makes of the message (`dead`: the stream ended without a
chunk; `silent`: chunks but no text; `broken`, `cut`: an error before or after the
first chunk), and `pending[q]` the task that writes `delivered_at`. A session bears
the name of the query that made it. A query makes at most one, so a session of its
own name also says that there is no further attempt (`used_cached_session`).
`target[q]` is the engine the query read when it started, and `engine` the one the
target is deployed on by now.

The healer's writes are those of `SessionRuns` and do not appear again. That a
chunk carries data is assumed of the engine: a chunk without would count as a
delivery, but not in `chunk_count`.

### DeliveryReceipt

The message is held, sent, begun, answered, ended, or it came to nothing
(`unanswered`). The receipt precedes the message, a message is repeated only if
nothing came back, each status needs the fate it speaks of, delivery is noted only
once an answer has begun, and a reply is final. `A2AQuery` implements it under the
mapping `FateOf` (`ReceiptsAreTruthful`).

### Identity

A turn is a message of one account, that is, of one id on one platform:

    idle -> identity -> served
                     -> email -> link -> union -> reload -> served
                              -> create -> store -> served
                     -> create -> ...

| pc | the access it stands for |
|---|---|
| `identity` | `get_user_by_identity`: the first `ScanLimit` users, filtered in memory |
| `email` | `get_user_by_email` |
| `link`, `union`, `reload` | the read and the `ArrayUnion` of `link_identity`, and the read after it |
| `create`, `store` | `create_user`: it takes the time (`stamp`), then sets the document |
| `served`, `raised` | the user is known, or the catch-all has dropped the message |

Any access may fail: the lookups then answer None, as for a new person
(`FindIdentityFails`, `FindEmailFails`), the others raise (`Raise`). A profile that the
platform does not give leaves the bare id for a name and no email, except on Google
Chat, whose events bring it (`InEvent`). New documents take any free place in the order
of a query, since ids are random. `created_at` is taken before the document is set, and
the set takes the time it takes: of two users being created, the one stamped first may
arrive last, and both may have one stamp (`Stamp`, `Create`). `seen` is history: the users
that were stored when a turn took its stamp.

Besides, the operator may submit the admin form at any moment (`EditUser`: email and
name), or run `link_identities.py`, whose three steps read the whole array of identities,
look for the account elsewhere, and write the whole array back. What he enters is
assumed right, of the same person.

`served` and `calm` are there for the properties. `calm` says that nothing has failed, no
lookup has missed a user behind the scan limit, nobody was worked on twice at the same
time, and no edit has taken away an email or given a user one that another user has.

### History

The log of one conversation: `record_message` makes a message, with its time (`Stamp`),
and stores it later or loses it (`Append`); the retention policy deletes it (`Expire`).
What a message says is the room it takes, how well it matches a query, and whether its
document still parses. The agent does one of two things:

    idle -> paging -> ... -> paged                     get_messages, page by page
         -> hits -> found -> before -> context         search_history, get_context

A page is one query of one document more than the caller's limit, minus those that do not parse, cut to the
page and then to the size cap (`ShowPage`). The three reads of `get_context` are
`GetMessage`, `ReadBefore` and `ReadAfter`, which also sheds what does not fit, from
the longer side (`Shedding`). `from` and `to` may lie anywhere, and the agent passes back
the cursor it was given.

### DiscordWorker

`step` is where `reconcile_loop` is: asleep, in the reads of a fetch, in the part that
stops clients (`closing` one of them), which ends by starting others. The worker is one
event loop, so what runs between two awaits is one action. `conns` is what Discord
knows, the open connections; `running` what the worker knows. A client may die at any
moment, the worker may restart and forget everything, agents may be edited between
the reads of a fetch. A direct message goes to every connection of its bot, and
`forward_dm` posts it once for each, from a thread that outlives the client; the Forum
takes it or not. `wavered` records which agents have given a reason to stop their client.

### PlatformEvents, AgentReply and Relay

`PlatformEvents` has, for each of the four platforms, how its endpoint may answer a
request, what of a message `parse_event` keeps, and which calls of the connector can
raise. `AgentReply` has the reply made of a stream of chunks: which text counts, and
which fallback stands in when there is none. `Relay` is the turn over them:

    begin -> find -> open -> notice -> judge -> download -> stage -> ask -> running -> reply -> record -> done
                          ----------->       -> refuse -> rejected                   -> exhausted -> done
                                             ----------------------> ask

| step | the `await` it stands for |
|---|---|
| `begin`, `find`, `open` | `get_user_info`; the agent and the user; `open_conversation`, and the log entry |
| `notice` | the post about files that cannot be read |
| `judge` | no await: `_apply_file_rules` decides |
| `download`, `stage` | `_download_with_retry`; the upload to Cloud Storage |
| `refuse` | the post that ends the turn before the agent is asked |
| `ask`, `running` | session, marker and prompt, as one; the run of the agent |
| `reply`, `record` | the connector's posts, one for each part; the log entry |
| `failed`, `gone`, `lost` | an exception was caught; no such agent; the instance went away |

`Receive` is a request of the platform: it may be lost, answered or not, the answer may
be lost, and Slack and Telegram then repeat it. Each request that is accepted starts a
turn of its own, so `turn` is indexed by message and delivery. The session and the user
are the business of `SessionRuns` and `Identity`: here their calls succeed or raise.

## What the runs check

| run | instance | properties |
|---|---|---|
| `SessionRuns_sequential` | two messages and a job, one in flight; sessions that expire; two lost turns; failing deletes and clears; the job's call long-running | `TypeOK`, `ConversationContinues`, `CallsFollowLedger`, `HealedSessionsReplay` hold |
| `SessionRuns_overlapping` | three messages, two in flight; one lost turn | `HealedRunsAreOver`, `AnsweredRunsNotReported`, `OldMarkersAreReported` hold |
| `SessionRuns_double_heal` | three messages, two in flight | `CallsAnsweredOnce` fails |
| `JobExecution_overlaps` | a dispatcher and a caller; a crash, and any access failing but the one that takes the lock | `TypeOK`, `OverlapsHaveACause`, `MiscountsNeedOverlap`, `DueJobIsTaken` hold |
| `A2AQuery_receipts` | two queries; retries, timeouts, late replies; a redeployment, a lost instance, failing deletes and receipt updates | `TypeOK`, `QueriesReachTheirEngine`, `AnsweredInBudget`, `AnswersAreTold`, `ReceiptsAreTruthful`, `AnsweredQueriesNotReported` hold |
| `A2AQuery_no_record` | the same, with receipts that cannot be created | `NoRecordNotSent` fails |
| `JobStore_upsert` | three calls of any kind, two spellings of one name and another; any access failing | `TypeOK`, `DuplicatesOnlyFromOverlaps`, `DeletedStaysDeleted`, `PausesHold` hold |
| `JobStore_partial` | creates and updates by the tool | `PartialUpdatesPreserve` fails |
| `Identity_linking` | three messages of four accounts, two on one platform, of two people, one using the other's name; a scan of two users, places for three; stamps that are equal or overtaken; any access failing; edits and the script | `TypeOK`, `OnePersonPerUser`, `Unified`, `SameUserEveryTime`, `NewcomersTakeNoName` hold |
| `History_reading` | three messages of four kinds over four instants; pages of one or two | `PagesAscend`, `ReadingIsComplete`, `ContextHasNoGap`, `PagingEnds` hold |
| `DiscordWorker_rounds` | two agents, two tokens, two messages; two edits, two faults | `EachDmOnce`, `NoBotStoppedForNothing`, `Converges` hold |
| `Relay_turns` | one message out of fourteen kinds, on four platforms, requested up to twice; thirteen streams; any call failing; with and without a bucket | `TypeOK`, `LoggedWasSeen`, `SlackAskedOnce`, `AgentSeesTheFile`, `OneAnswerPerTurn`, `ReplyIsTheLastWord`, `AcceptedTurnsEnd` hold |

The properties, in words:

- `ConversationContinues`: a turn that starts within the session timeout of the
  turn the user last heard from uses the same Agent Engine session. It relates
  the document's activity, the expiry decided on an earlier read, and the delete
  and the set that follow it.
- `CallsFollowLedger`: see above. It needs the marker's age, the grace period and
  the re-check together, against runs that outlive their turns.
- `HealedSessionsReplay`: after a healer's append the provider accepts the
  history, each answer being in its place, so the turn that follows is not refused for the damage just repaired.
- `HealedRunsAreOver`: no healer is about to answer a call of a live run.
- `AnsweredRunsNotReported`: a run that ended in a reply is not logged as cut off,
  although other turns overwrite and clear the same marker.
- `OldMarkersAreReported`: a marker that another turn writes over was reported before,
  or was too young to tell a slow run from one that was cut off. It needs the
  recovery to come before the mark, on the document that is then marked.
- `OverlapsHaveACause`: what the lock gives. An execution begins beside another only if
  that one took the lock after this one's worker had read it, has outlived the lock, or had its
  lock released by a worker that overlapped it or had released before. "Not perfectly
  atomic", says the code (`firestore_service.py:631`); the causes are exact, and each occurs.
- `MiscountsNeedOverlap`: `consecutive_failures` differs from the number of failures recorded
  since the last success only if executions overlapped since a success recorded by one alone.
- `DueJobIsTaken`: a job that stays due, enabled and in place is executed in the
  end, whatever locks were left behind.
- `ReceiptsAreTruthful`: see above. It needs the order in which timeout, receipt and
  late reply are written, that `delivered_at` is written alone, and the zero-chunk
  test before a second attempt.
- `AnswersAreTold`: a query that is over has the answer that came, in time or late,
  on its receipt, unless an update of the receipt failed.
- `QueriesReachTheirEngine`: a message is sent with a session of the engine it is
  sent to, although the target is redeployed and other queries replace the session.
- `AnsweredInBudget`: the caller has its answer within `REQUEST_BUDGET_SECONDS`.
- `AnsweredQueriesNotReported`: a query that dealt with its answer is not logged as
  cut off by a later one.
- `DuplicatesOnlyFromOverlaps`: unless an update has named one of them, two jobs of
  one agent, user and normalized name come from creates that overlapped. Creates are
  "idempotent per (agent, user, name)" (`docs/FOR_AGENT_DEVELOPERS.md:259`) for
  callers that wait for each other, beside any other calls. Creates that overlap do
  insert duplicates, since the guard queries and then inserts, and a rename into a
  name that is taken is not checked at all: the condition is exact.
- `DeletedStaysDeleted`, `PausesHold`: an update decided before a deletion or a pause
  neither brings the job back nor resumes it.

- `OnePersonPerUser`: a user never holds accounts of two people, nor another's email,
  whatever fails, overlaps or is edited. It fails at once if an absent email is looked
  up, for it then finds any user without one.
- `Unified`, `SameUserEveryTime`: as long as `calm`, an account and an email have one
  user, a user one account on a platform (unless the operator linked another), and an
  account is always served as the same user, so that it has one conversation with each
  agent: links are not lost, and nobody is created twice. Two first messages at once, a failing
  lookup, the script run while its user writes, or the 101st user end that: `calm` states
  what the code relies on and nothing enforces.
- `NewcomersTakeNoName`: an agent refers to users by name, in a later call; a user
  created in between does not take over a name that stood for somebody, wherever the
  query puts it, if that somebody was stored when the newcomer took its stamp. Without
  that condition it would be false: see below.
- `PagesAscend`: a page is later than all the pages before it, although messages are
  stored late, share timestamps, expire, and pages are cut short by the cap.
- `ReadingIsComplete`: when there is no `next_cursor`, all that was in the range at the
  start and still is has been shown, but for what is `Obstructed`: messages of a timestamp
  they share, and what comes after a document that does not parse or a message larger
  than a response. The exceptions are exact: the run without one of them fails.
- `ContextHasNoGap`: an excerpt has the hit and skips no message between two it shows,
  though it is made of three reads and cut to the cap.
- `PagingEnds`: an agent that asks for the next page comes to the last one.
- `EachDmOnce`: a message is not taken twice. A bot never has two connections at once,
  because the old client is stopped before the new one starts.
- `NoBotStoppedForNothing`: a client goes only when its agent was edited, its token
  could not be read, it had died, or the worker restarted; an outage of Firestore takes
  no bot offline.
- `Converges`: once edits and faults are over, the connections are those configured.
- `LoggedWasSeen`: a reply in the log was posted in all its parts.
- `SlackAskedOnce`: the agent gets a message of Slack once, however often the request
  comes. It relates turns of several requests through the header that marks repetitions.
- `AgentSeesTheFile`: an agent that is asked has the one readable file if there is one
  and somewhere to put it, and is told of removed files exactly when the user was.
- `OneAnswerPerTurn`: a turn gives at most one answer, exactly one if nothing failed, and
  a refusal only if the agent was not asked.
- `ReplyIsTheLastWord`: the reply is what the agent said after its last tool call; words
  from before only if there are none after; a fallback only if there are none at all.
- `AcceptedTurnsEnd`: every turn that was accepted ends, if only with its instance.

### What the runs that fail show

1. *Double heal.* The re-check narrows the window but does not close it. Two turns
   that read the same old marker list the same tail, both re-check, and both
   append: the second answer is "its own provider error" (`session_healer.py:382`).
2. *No record.* "No record at all means the message never reached the engine, and
   resending is safe". When the receipt cannot be written the relay carries on, on
   purpose, and the message is sent without one.
3. *Partial update.* "Only the fields you pass are changed; everything else is
   preserved." The tool passes on every field, None for the missing ones. An update
   with schedule and timezone sets the rest to null, and the job no longer parses;
   an update without them is refused, for None is neither a schedule nor a timezone.

Other places where the code and a text of the repository disagree, seen while modelling and
shown by no run:

- "Increment failures using a transaction" (`firestore_service.py:713`) is a read and a later
  write. Two executions that both found the lock free and both fail can read the same count
  and write it back plus one each; `MiscountsNeedOverlap` says that nothing but an
  overlap does.
- `get_user_by_any_name` sorts by `created_at`, then the id, so that, for a name, calls "must
  always land on the same user record even when two users could match"
  (`firestore_service.py:914-915`). `create_user` takes that time (`:742`) before it awaits
  the set (`:753`). Two people of one name write at once; the one stamped second is stored
  first and is who the name stands for, until the other arrives with the earlier, or the
  same, stamp. `NewcomersTakeNoName` says that no other newcomer takes a name over.
- A message that arrives before a marker is 600 s old reports nothing and overwrites it,
  so that the run that vanished is never logged, where `docs/TROUBLESHOOTING.md:400-401`
  says that one "whenever a run it started never came back" is; so does a session that
  expires with its marker. `OldMarkersAreReported` is what does hold.
- A failed `mark_run_started` is said to cost "the chance to notice a cut-off later"
  (`firestore_service.py:197-199`). When an earlier marker is still in place it costs
  more: the next turn takes the old marker for the new run's and heals its tool call
  while it is alive. The theorem `OnlyDeadRunsAreHealed` assumes that marks are written.
- A "one-time retry" (`models/scheduled_job.py:91`) is cleared only by a success. A retry
  that fails leaves `retry_at` in the past and the job due at every dispatch.
- `resolve_user` raises for a person whose email has a user with another account on the
  platform (`identity_service.py:166`), and the message is dropped without a word.
- A page on which nothing fits says "pass next_cursor" and has none
  (`history_mcp.py:510-516`).
- A photo's caption on Telegram is not read: only `text` is.

### Bounds

`MaxTime` bounds the clock of `SessionRuns`: 4 or 5 units are a run that is
marked, one cut-off later a healer, and a further run under way while it works.
Two messages and a job, or three messages, are a run that vanishes, a turn that
recovers from it and a turn that interferes; with two in flight the third is
always the one that had vanished. `MaxLost`, `MaxCrashes` and `MaxFailed` bound
lost instances and failures in a row. `MaxInFlight` is not only a bound: with 1 it is the
regime in which turns do not overlap, and some properties hold in that regime alone.

In `JobExecution`, two workers meet in every way two steps of different workers can: both
between read and write, one beyond the timeout, one recording after its release. The lock
times out after two units; one failure in a row is counted, and those of executions that overlap.

In `A2AQuery` the wait and the budget are 2 units and the cut-off 3, so that a
second attempt is cut short by the budget, and a marker left by a timeout can grow
old (`MaxTime` 6). Two queries suffice: receipts are private to a query, and what is
shared, the document, is written by one query and misread by another.

In `JobStore`, three calls are what a job, its deletion or renaming and a second
create need, and what two creates and a third call beside them need. One user of one
agent suffices: calls of different owners meet in no document.

In `Identity`, three messages are two that meet on one person and a third that finds what
they left. Places for three users and a scan of two leave one out of reach. Ann has two
accounts on one platform, one on another under a name of its own and without an email,
and Ben, whose email nobody shows, is called what she is called elsewhere: each account
has another way into the same or the wrong user. Two `Stamps` are enough for a stamp to
be equal to another, or to be overtaken by a later one;
the third user is then stamped beside the second.

In `History`, three messages are a page and a message beyond it, or a hit with a
neighbour on each side; two instants of the range and four of the clock make ties, and
messages stamped before a page and stored after. A response has room for three short
messages, for one and a half, never for a long one.

In `DiscordWorker`, two edits are a token that rotates and changes back, or an agent that
goes while another comes; two faults a client that dies and a read that fails.

In `Relay`, one message with two deliveries is enough, since turns of different messages
share nothing that is modelled here. `Wires` and `Runs` have a member for each branch of the
file rules and of the extraction.

The proofs below have none of these bounds.

`SessionRuns`, `A2AQuery`, `JobStore`, `Identity` and `History` run with `CHECK_DEADLOCK FALSE`:
every turn, query, call and reading ends, and then the system stops. `JobExecution`,
`DiscordWorker` and `Relay` run with deadlock checking; `Quiet` is the state of `Relay` in
which every turn is over and a platform may still call.

`MCSessionRuns`, `MCA2AQuery` and `MCIdentity` define views. They leave out what no later
step and no property of the run reads: the locals of a coroutine that is over (`JobExecution`
itself forgets them, with `Forget`), and, of a session's events, everything but the calls
made, the number of answers to each and whether one is in its place, the calls still open
and the age of an open tail. A session that the document does not name and no turn uses is
left out altogether. The view of the conversation (`TalkView`) adds what
`ConversationContinues` reads; that of `MCIdentity` leaves out who was served once it is no
longer calm, names and stamps once no turn can store a user, and goes with a symmetry of
the turns. The runs with a liveness property use neither.

### Assumptions about time, and fairness

The code relies on orderings of time limits, which are the assumptions of the
modules:

- `RunLimit + StepLimit < CutOffAfter` (`TimingAssumption`): `config.py:44-50` sets
  the cut-off to 600 s, "longer than any run can survive", Cloud Run's request
  timeout being 300 s.
- `StepLimit < Grace`: the few Firestore and Sessions API calls between reading the
  session and marking the run take less than the 120 s of `heal_grace_seconds`.
- In `Identity`, a stamp is later than those of the users stored by then (`Stamp`): the
  clocks of two Cloud Run instances differ by less than a Firestore write takes. An
  instance whose clock is further behind could take a name over.
- `StepLimit <= RequestBudget`, in `A2AQuery`: a query gets to its first attempt
  within its budget of 270 s. Time passes before that attempt and while a query
  waits; the Firestore calls in between take none, which is what the 30 s between
  the budget and Cloud Run's limit are for.

`FairSpec` of `JobExecution` assumes weak fairness of each dispatcher's listing
(Cloud Scheduler calls it every five minutes), of each worker's steps (the event
loop runs a coroutine that can go on; an HTTP call returns or raises) and of the
clock. It assumes nothing of callers, crashes, edits and faults, except that
crashes are bounded and that the Firestore read and write of the lock itself do
not fail for ever (the fault `acquire` is not in that run).

`Spec` of `History` assumes weak fairness of `NextPage` alone: an agent that reads asks for the
next page. `Spec` of `DiscordWorker` assumes weak fairness of `Reconcile`: the loop sleeps for
a fixed time, catches what a fetch or a client raises, and waits at most ten seconds for a
client. Edits and faults are bounded and owe nothing. `Spec` of `Relay` assumes weak fairness of
each turn's step: its calls return or raise, by the time-outs of the clients or the end of
the request. It assumes nothing of the platforms.

## What is proved

`tlapm` checks these for every value of the constants that satisfies the
assumptions of the module.

**`SessionRunsProofs!TypeCorrect`**: `Spec => []TypeOK`.

**`SessionRunsProofs!OnlyDeadRunsAreHealed`**: if marker writes do not fail with the
document in place (`MarksAreWritten`), then `Spec => []HealedRunsAreOver`, for any
number of turns in flight. `HealedRunsAreOver` is not inductive: that a call in
`orphans` belongs to a dead run depends on how old the marker was when it was read
and how old the tail was when it was listed. The inductive invariant `HealInv` adds:

- `InTime`: a turn that is preparing read the document at most `StepLimit` ago, and a
  live run was marked at most `RunLimit` ago (what `Tick` guarantees);
- `MarkIsLatest`: the marker in the document, if it is there, is not older than any
  run that was marked while its session was mapped, and `SnapIsLatest` the same of
  the marker a turn read, for runs marked before it read;
- `CallsLogged`, `OrphansAreOver`, `HealsCutOffs`: a call is in the log of its own
  turn's session, an orphan is a call found at the tail, and a turn reaches the
  healer only with an old marker.

A call found by a healer then belongs either to a run marked before the document
was read, which the old marker shows to be beyond `RunLimit`, or to a run marked
after, whose call is younger than `StepLimit`, so that the grace period, being
longer, has kept the healer away. `MarksAreWritten` cannot be dropped: with
the fault `mark` TLC finds a live run healed.

**`ClosedRunsAreNotReported`**: if clearing a marker does not fail (`MarksAreCleared`),
`Spec => []AnsweredRunsNotReported`, for any number of turns in flight. `ReportInv` says
whose a marker can be: the one in the document is of a run that has not ended in a reply,
for such a run clears it, whoever wrote it; and the one a turn read, when its run has
ended since, was read while that run could still be alive, and is too young to be reported.
A failed clear leaves the marker of an answered run, which is what the log then reports.

**`NoCutOffIsLost`**: under `MarksAreWritten`, `Spec => OldMarkersAreReported`, for any number
of turns. `MarkIsKnown` follows what a turn knows of the marker in the document, from its
read to its own marker: it is the one it read, or younger than the read, or it was reported
or too young when the turn looked at it. Without the condition a run that could not mark
keeps an old marker in place, which the next turn cannot tell from its own.

**Turns handled one at a time** (`OneTurnAtATime`: one in flight, finitely many of them, some
of which may be lost at any point). This is the regime of a user who waits for the reply;
`SessionRuns_double_heal` shows that `OneAnswerPerCall` needs it.

- **`OneAnswerPerCall`**, **`CallsImplementLedger`** and **`HealedHistoriesReplay`**, under
  `MarksAreWritten`: no call is answered twice, `SessionRuns` implements `CallLedger`, and the
  provider accepts what a healer leaves. `LedgerInv` adds to `HealInv` that a history has
  every call of its events answered in its place or long-running, but for those of the last
  call event (a model is only asked about a settled history), which nothing but answers
  follows; that calls and answers in the log agree
  with the state of the engine; and that what a healer decided to answer is still open, and
  all that is open, when it appends. The refinement is shown action by action from that.
- **`ConversationsContinue`**, if the document can be read (`ReadsSucceed`): `TalkInv` says that
  until the timeout the document maps the user to the session of the turn he last heard
  from, and from a turn's touch or store to its end to the turn's own; and that a
  session is dropped or replaced only after the timeout. A read that fails looks like a
  first message, and starts a new session.

**`OnlyHealersAnswerAgain`** is what overlapping turns keep, for any number of them, under
`MarksAreWritten`: a run is never the second to answer its call, and a healer is so only after
another turn's healer that found the same call. So the way to a second answer that
`SessionRuns_double_heal` shows is the only one. `RaceInv` says that an answered call's run is past
its answer (`AnswersFitRuns`), and that an answer which a healer's call has got since it
was listed comes from a turn that has passed its own healer (`RivalsHealed`).

**`JobExecutionProofs!TypeCorrect`**: `Spec => []TypeOK`.

**`JobExecutionProofs!OverlapsAreExplained`** and **`MiscountsAreExplained`**:
`Spec => OverlapsHaveACause` and `Spec => []MiscountsNeedOverlap`, without conditions, for any
workers, lock timeout and faults. The inductive invariant `LockInv` says that the lock of
an execution which nobody else has released is set and not older than the execution
(`LocksAreKept`), so that it is found free only by outliving it; and that whoever
is about to write the lock has a cause for every execution there is (`TakersAreExcused`): those
that held it when it was read still have the cause they had then, the others took it since.
`CountInv` says that in a job that is not crowded there is at most one worker that may still
record an outcome, and the count it has read is the count.

**`A2AQueryProofs!ReceiptsImplement`**: if receipts can be created
(`ReceiptsAreCreated`), `Spec => ReceiptsAreTruthful`, that is, `A2AQuery` implements
`DeliveryReceipt`: the initial states map to initial states, and `ReceiptStep` maps
each action to a step or a stutter. The mapped steps are legal because of
`ReceiptInv`: a message about to be sent is at rest (`UnsentIsIdle`) and has a receipt
(`SentHasReceipt`), the outcome about to be recorded is the one that happened
(`OutcomeFits`), nothing is recorded after a reply (`ReplyIsLast`), and a delivery
that is noted, or about to be, has happened (`NotedIsBegun`). **`AnswersReachReceipts`**
follows from the same invariant. `A2AQuery_no_record` shows that the condition
cannot be dropped.

**`MessagesReachTheirEngine`**, **`BudgetIsKept`** and **`OnlyUnansweredAreReported`** are
about the shared document. `DocumentInv` says that a session in use was made for the
engine its user knows, that no wait goes beyond the budget, and that a query that has
dealt with its answer has no marker left. The last part, and the last theorem, need
that clearing a marker does not fail (`MarksAreCleared`).

**`A2AQueryProofs!TypeCorrect`**: `Spec => []TypeOK`.

**`JobStoreProofs!DuplicatesNeedOverlap`**: `Spec => []DuplicatesOnlyFromOverlaps`,
without further conditions. The inductive invariant `IInv` says that a document not
renamed has the identity it was created for, and the key of that identity
(`OwnIdentity`, which the write of an upsert keeps because of `UpsertsOwnJob`), that
calls in flight overlap, and that whatever shares the identity of a call about to
insert was inserted after that call's guard, hence by a call that overlapped it
(`InsertersFoundNone`). The proof uses the guard and not the lookup, which is what
the code says of the guard: it "still holds when a malformed document would defeat
the model-level lookup". **`DeletionIsFinal`** and **`PausedStaysPaused`** are the two
action properties, and **`TypeCorrect`** is `Spec => []TypeOK`.

**`IdentityProofs!NobodyIsMixedUp`**: `Spec => []OnePersonPerUser`, without conditions, for
any people, accounts, names and scan limit. The invariant adds that a turn that holds a
user found by email is of the person whose email it is, and that the user has an account
and keeps them while the turn is at work; and that the script's copy holds accounts of
its user's person only. It uses the one assumption on emails, that no two people share one.

**`NewcomersAreNobodyElse`**: `Spec => NewcomersTakeNoName`, whatever fails, overlaps or is
edited. A stamp is later than those of all users stored when it was taken (`SeenBefore`,
which holds until the turn stores its user, since nothing else changes a `created_at`), and
of those with a name the lookup has one first (`FirstCreated`: earliest, then least id), so
a newcomer comes after whoever it saw. It rests on the assumption on clocks above; for users
the newcomer did not see it is false.

**`CalmUsersAreUnified`** and **`CalmTurnsMeetOneUser`**: `Spec => []Unified` and
`Spec => []SameUserEveryTime`; the condition is the state's own, `calm`. The
invariant `CalmInv` says that in a calm state there is `Peace`: turns and the script that
are at work are of different people (`Apart`); an account and an email have one user; what a
turn has found out still holds, since only turns of that person could change it
(`TurnsKnow`: nobody has the account it is about to link or create, nobody the email it
brings, the user it found has nothing on the platform); the script's copy is what the user
has, with the account that it adds and that nobody else has; and an account has been served
only as its holder. `WriteStep` treats every write of a turn as adding one account to one
user, whichever of `union` and `create` it is.

**`HistoryProofs!PagesAlwaysAscend`**: `Spec => []PagesAscend`, for any log, range, page size
and cap. The invariant says that the cursor is later than or at everything that has been
shown, and that what was shown keeps its time; a page is read strictly after the cursor.
**`PagesGetOn`**: the cursor grows with every page and stays in the range, which is the variant
behind `PagingEnds` and says that a reading has no more pages than the range has instants.

**`ReadingsAreComplete`**: `Spec => []ReadingIsComplete`. The invariant `ReadInv` says that what was
in the range at the start, is still stored and not later than the cursor has been shown or
is obstructed, which a page keeps (`PageComplete`). That lemma rests on others about the
operators of a query, each for any finite set of messages: the order is total and
has earliest members (`Earliest`), the first k are closed towards the start and number k
unless they are all (`FirstClosed`, `FirstIsAll`, `FirstIsFull`), and a larger set takes at
least as much room (`SizeGrows`). What is left out of a page is then behind its last message, or its
page was empty, because of a document that does not parse or a message that does not fit.

**`ContextsHaveNoGap`**: `Spec => []ContextHasNoGap`. `ContextInv` says that the hit is shown, and that
between a message shown before it and the hit nothing is missing that was there throughout;
the last k of what precedes are closed towards the hit (`LastClosed`), and what is shed for
the cap goes from the ends.

**`DiscordWorkerProofs!MessagesAreTakenOnce`** and **`ClosesOnlyWithAReason`**: `Spec => []EachDmOnce`
and `Spec => NoBotStoppedForNothing`, for any number of agents, edits and faults. The first needs
that an agent has one connection at most, that of its running client or of the one being
closed, and none is started while one closes; hence a message has one forward at most,
and none once it was taken. The second needs that an agent whose client differs from its
configuration, or from what the fetch found, has wavered.

**`RelayProofs!SlackIsAskedOnce`** and **`LoggedRepliesWereSeen`**: `Spec => []SlackAskedOnce` and
`Spec => []LoggedWasSeen`, for any messages and any number of deliveries. A turn of Slack has
delivery number one; and a turn about to log its reply has posted every part of it,
which no later step takes back.

**`AgentsSeeTheFile`**, **`TurnsAnswerOnce`** and **`RepliesAreTheLastWord`**: `Spec => []P` for
`AgentSeesTheFile`, `OneAnswerPerTurn` and `ReplyIsTheLastWord`, for any messages, accepted
types and streams, whatever fails. One invariant, `ToldInv`, follows a turn from step to
step: which file it can still come to have (`AskedRight`), that its posts have the notice
exactly if files were unreadable and the step was passed (`NoticeGiven`), which answers its
posts hold, and when there are none (`AnsweredOnce`), and that its reply is the one
`AgentReply` makes of its stream (`RepliesToStream`). Every part of it speaks of one turn and
of what never changes, so only the turn's own steps have to be looked at (`ToldStays`).

**`TypeCorrect`** of the four modules: `Spec => []TypeOK`, for `History` and `DiscordWorker` in place
of a run.

So each safety invariant, action property and refinement that a passing run checks is also
a theorem, some of them under the conditions above. A condition excludes a fault, an
overlap, or an execution that outlives its lock; the runs that check the property meet it.

**Only model-checked**: `DueJobIsTaken`, `PagingEnds`, `Converges` and `AcceptedTurnsEnd`, since
liveness under fairness is out of the prover's reach.

## What is not modelled, and the plan

Left out for good: payload formats, wording, authentication, the views of the admin pages,
deployment and installation scripts; cron arithmetic and time parsing (the libraries do
it); caches of clients and tokens. Of the MCP servers, the tools that only read and return
documents (`list_agents`, `get_agent_inquiries`, the listing of jobs). `test_execute_job`
runs a turn without touching any tracking field; `is_silent_reply` tests one string;
`_build_time_context` reads the clock and seeds a default time zone that nothing modelled
reads.

In `SessionRuns`, what precedes the session is the business of `Identity` and `Relay`. A
run makes one tool call; parallel calls are covered by `SessionTail` as sets. In `Relay`, a
media type is accepted or not: the second look at the type of a file in
`_intake_single_file` can only agree with the first.

What could be proved beyond this:

1. The variants behind the other liveness properties, as `PagesGetOn` is for `PagingEnds`: that
   a turn of `Relay` never returns to an earlier step, and that a round of `DiscordWorker`
   without edits or faults moves `running` towards the configuration.
