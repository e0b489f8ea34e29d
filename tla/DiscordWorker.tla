--------------------------- MODULE DiscordWorker ----------------------------
(***************************************************************************)
(* The discord-worker: one process that holds a Gateway connection for     *)
(* every agent with Discord enabled, reconciles them with the agents'      *)
(* documents once in a while, and forwards direct messages to the Forum's  *)
(* Discord endpoint, which takes a message or refuses it.                  *)
(*                                                                         *)
(* The worker and its clients share one event loop, so another actor moves *)
(* only where reconcile_loop awaits or blocks: between the reads of a      *)
(* fetch, while a client closes, and in the sleep between two rounds.      *)
(***************************************************************************)
EXTENDS Integers, FiniteSets

CONSTANTS
    Agents,
    Tokens,     \* values a bot token may have
    Dms,        \* direct messages
    To,         \* message -> the agent it is for
    MaxEdits,   \* bound: changes of the agents' configuration
    MaxFaults,  \* bound: failed reads, dead clients, restarts of the worker
    Nothing     \* None: Discord disabled, no client

Conn(a, k) == [agent |-> a, token |-> k]
Connections == [agent : Agents, token : Tokens]

ASSUME WorkerAssumption ==
    /\ Nothing \notin Tokens \cup Connections
    /\ To \in [Dms -> Agents]
    /\ {MaxEdits, MaxFaults} \subseteq Nat

VARIABLES
    config,    \* agent -> its current token, Nothing when Discord is disabled
    step,      \* where reconcile_loop is
    unread,    \* agents this fetch has not come to yet
    desired,   \* agent -> token, as this fetch found it
    running,   \* agent -> token of its RunningClient
    closing,   \* the client being stopped, popped from running already
    conns,     \* the open Gateway connections
    forwards,  \* forward_dm under way: messages and the connections they came by
    sent,      \* messages that were sent
    taken,     \* message -> times the Forum took it on
    wavered,   \* history: agents whose client had a reason to go since it started
    edits, faults

loopVars == <<step, unread, desired, running, closing, wavered>>
dmVars == <<forwards, sent, taken>>
vars == <<config, loopVars, conns, dmVars, edits, faults>>

MaybeToken == Tokens \cup {Nothing}
NoClients == [a \in Agents |-> Nothing]

(* The task of a client has ended.                                         *)
Dead(a) == running[a] # Nothing /\ Conn(a, running[a]) \notin conns

Fault == faults < MaxFaults /\ faults' = faults + 1

-----------------------------------------------------------------------------
TypeOK ==
    /\ {config, desired, running} \subseteq [Agents -> MaybeToken]
    /\ step \in {"asleep", "fetch", "stop", "closing"}
    /\ {unread, wavered} \subseteq SUBSET Agents
    /\ closing \in Connections \cup {Nothing}
    /\ conns \subseteq Connections
    /\ forwards \subseteq Dms \X Connections
    /\ sent \subseteq Dms
    /\ taken \in [Dms -> Nat]
    /\ edits \in 0 .. MaxEdits /\ faults \in 0 .. MaxFaults

Init ==
    /\ config \in [Agents -> MaybeToken]
    /\ step = "asleep"
    /\ unread = {} /\ wavered = {}
    /\ desired = NoClients /\ running = NoClients
    /\ closing = Nothing
    /\ conns = {} /\ forwards = {} /\ sent = {}
    /\ taken = [d \in Dms |-> 0]
    /\ edits = 0 /\ faults = 0

-----------------------------------------------------------------------------
(* An agent's Discord platform is enabled, disabled or given a new token.  *)
Edit(a) ==
    \E k \in MaybeToken \ {config[a]} :
        /\ edits < MaxEdits
        /\ edits' = edits + 1
        /\ config' = [config EXCEPT ![a] = k]
        /\ wavered' = wavered \cup {a}
        /\ UNCHANGED <<step, unread, desired, running, closing, conns, dmVars, faults>>

(* A client's task ends: a refused token, a connection it cannot resume.   *)
Dies(a) ==
    /\ running[a] # Nothing
    /\ Conn(a, running[a]) \in conns
    /\ conns' = conns \ {Conn(a, running[a])}
    /\ Fault
    /\ UNCHANGED <<config, loopVars, dmVars, edits>>

(* The worker is restarted: all it knew was in memory.                     *)
Restart ==
    /\ Fault
    /\ step' = "asleep"
    /\ unread' = {} /\ wavered' = {} /\ conns' = {} /\ forwards' = {}
    /\ desired' = NoClients /\ running' = NoClients
    /\ closing' = Nothing
    /\ UNCHANGED <<config, sent, taken, edits>>

-----------------------------------------------------------------------------
(* reconcile_loop *)

(* fetch_discord_agents begins.                                            *)
BeginRound ==
    /\ step = "asleep"
    /\ step' = "fetch"
    /\ unread' = Agents
    /\ desired' = NoClients
    /\ UNCHANGED <<config, running, closing, wavered, conns, dmVars, edits, faults>>

(* The document of an agent and its token; one whose token cannot be read  *)
(* is passed over, like one without Discord.                               *)
ReadAgent(a) ==
    /\ step = "fetch"
    /\ a \in unread
    /\ unread' = unread \ {a}
    /\ \/ desired' = [desired EXCEPT ![a] = config[a]]
          /\ UNCHANGED <<faults, wavered>>
       \/ config[a] # Nothing /\ Fault
          /\ wavered' = wavered \cup {a}
          /\ UNCHANGED desired
    /\ UNCHANGED <<config, step, running, closing, conns, dmVars, edits>>

\* Mutant: a fetch that fails leaves what it has read so far as desired.
FetchFailsReconciles ==
    /\ step = "fetch"
    /\ Fault
    /\ step' = "stop"
    /\ unread' = {}
    /\ UNCHANGED <<config, desired, running, closing, wavered, conns, dmVars, edits>>

(* Firestore fails: nothing is reconciled this round.                      *)
FetchFails ==
    /\ step = "fetch"
    /\ Fault
    /\ step' = "asleep"
    /\ unread' = {}
    /\ UNCHANGED <<config, desired, running, closing, wavered, conns, dmVars, edits>>

\* Mutant: a client whose task has ended stays among the running.
FetchDoneKeepsDead ==
    /\ step = "fetch"
    /\ unread = {}
    /\ step' = "stop"
    /\ UNCHANGED <<config, unread, desired, running, closing, wavered, conns, dmVars,
                   edits, faults>>

(* The fetch is complete; clients whose task has ended are forgotten.      *)
FetchDone ==
    /\ step = "fetch"
    /\ unread = {}
    /\ step' = "stop"
    /\ running' = [a \in Agents |-> IF Dead(a) THEN Nothing ELSE running[a]]
    /\ UNCHANGED <<config, unread, desired, closing, wavered, conns, dmVars, edits, faults>>

Unwanted(a) == running[a] # Nothing /\ desired[a] # running[a]

\* Mutant: the client of a rotated token is replaced without being stopped.
PopClientUnclosed ==
    \E a \in Agents :
        /\ step = "stop"
        /\ Unwanted(a)
        /\ running' = [running EXCEPT ![a] = Nothing]
        /\ closing' = IF desired[a] = Nothing THEN Conn(a, running[a]) ELSE Nothing
        /\ step' = IF desired[a] = Nothing THEN "closing" ELSE "stop"
        /\ UNCHANGED <<config, unread, desired, wavered, conns, dmVars, edits, faults>>

(* A client that is no longer desired, or has another token, is popped and *)
(* stop_client closes it and waits for its task; wait_for cancels one that *)
(* does not end.                                                           *)
PopClient ==
    \E a \in Agents :
        /\ step = "stop"
        /\ Unwanted(a)
        /\ running' = [running EXCEPT ![a] = Nothing]
        /\ closing' = Conn(a, running[a])
        /\ step' = "closing"
        /\ UNCHANGED <<config, unread, desired, wavered, conns, dmVars, edits, faults>>

ClientClosed ==
    /\ step = "closing"
    /\ step' = "stop"
    /\ conns' = conns \ {closing}
    /\ closing' = Nothing
    /\ UNCHANGED <<config, unread, desired, running, wavered, dmVars, edits, faults>>

(* start_client only creates the task: all clients start in one go, with   *)
(* the tokens the fetch found.                                             *)
StartClients ==
    LET new == {a \in Agents : running[a] = Nothing /\ desired[a] # Nothing}
    IN  /\ step = "stop"
        /\ \A a \in Agents : ~ Unwanted(a)
        /\ step' = "asleep"
        /\ running' = [a \in Agents |-> IF a \in new THEN desired[a] ELSE running[a]]
        /\ conns' = conns \cup {Conn(a, desired[a]) : a \in new}
        /\ wavered' = {a \in wavered : a \notin new \/ config[a] # desired[a]}
        /\ UNCHANGED <<config, unread, desired, closing, dmVars, edits, faults>>

-----------------------------------------------------------------------------
(* A message goes to every connection of the bot; without one it is lost.  *)
Send(d) ==
    /\ d \notin sent
    /\ sent' = sent \cup {d}
    /\ forwards' = forwards \cup {<<d, c>> : c \in {x \in conns : x.agent = To[d]}}
    /\ UNCHANGED <<config, loopVars, conns, taken, edits, faults>>

(* forward_dm posts the message once, from a thread that outlives the      *)
(* client.  It is dropped if no token can be minted, the Forum is not      *)
(* reached or refuses it; the endpoint refuses what is for an agent that   *)
(* has no Discord any more, and hands everything else to a background task.*)
Forward(d) ==
    \E c \in Connections :
        /\ <<d, c>> \in forwards
        /\ forwards' = forwards \ {<<d, c>>}
        /\ \/ config[To[d]] # Nothing /\ taken' = [taken EXCEPT ![d] = @ + 1]
           \/ UNCHANGED taken
        /\ UNCHANGED <<config, loopVars, conns, sent, edits, faults>>

Reconcile ==
    \/ BeginRound \/ \E a \in Agents : ReadAgent(a)
    \/ FetchDone \/ PopClient \/ ClientClosed \/ StartClients

Next ==
    \/ Reconcile \/ FetchFails \/ Restart
    \/ \E a \in Agents : Edit(a) \/ Dies(a)
    \/ \E d \in Dms : Send(d) \/ Forward(d)

(* The loop sleeps for a fixed time and no step of it waits for ever.      *)
Spec == Init /\ [][Next]_vars /\ WF_vars(Reconcile)

-----------------------------------------------------------------------------
(* No message is taken twice, through rotations, restarts and dying        *)
(* clients: an agent never has two connections that both forward it.       *)
EachDmOnce == \A d \in Dms : taken[d] <= 1

(* The worker only closes a client with a reason: since the client started *)
(* the agent was edited, or a read of its token failed.  An outage of      *)
(* Firestore takes no bot offline.                                         *)
NoBotStoppedForNothing ==
    [][\A a \in Agents :
          running[a] # Nothing /\ running'[a] = Nothing
              => a \in wavered \/ Dead(a) \/ Restart]_vars

(* When the edits and the faults are over, every agent with Discord comes  *)
(* to have its one connection, with its current token, and no other has.   *)
Converges ==
    <>[](conns = {Conn(a, config[a]) : a \in {x \in Agents : config[x] # Nothing}})
=============================================================================
