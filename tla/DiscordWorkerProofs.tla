------------------------ MODULE DiscordWorkerProofs -------------------------
(***************************************************************************)
(* For any number of agents, tokens, messages, edits and faults: a direct  *)
(* message is taken by the Forum at most once, and the worker closes no    *)
(* client without a reason.                                                *)
(***************************************************************************)
EXTENDS DiscordWorker, TLAPS

\* The variables keep their types.
THEOREM TypeCorrect == Spec => []TypeOK
<1> USE WorkerAssumption DEF TypeOK, MaybeToken, Connections, Conn, NoClients, Fault
<1>1. Init => TypeOK
  BY DEF Init
<1>2. TypeOK /\ [Next]_vars => TypeOK'
  <2> SUFFICES ASSUME TypeOK, [Next]_vars PROVE TypeOK'
    OBVIOUS
  <2> USE DEF loopVars, dmVars
  <2>1. ASSUME NEW a \in Agents, Edit(a) PROVE TypeOK'
    BY <2>1 DEF Edit
  <2>2. ASSUME NEW a \in Agents, Dies(a) PROVE TypeOK'
    BY <2>2 DEF Dies
  <2>3. ASSUME Restart PROVE TypeOK'
    BY <2>3 DEF Restart
  <2>4. ASSUME BeginRound \/ FetchDone PROVE TypeOK'
    BY <2>4 DEF BeginRound, FetchDone
  <2>5. ASSUME NEW a \in Agents, ReadAgent(a) PROVE TypeOK'
    BY <2>5 DEF ReadAgent
  <2>6. ASSUME FetchFails PROVE TypeOK'
    BY <2>6 DEF FetchFails
  <2>7. ASSUME PopClient \/ ClientClosed PROVE TypeOK'
    BY <2>7 DEF PopClient, ClientClosed, Unwanted
  <2>8. ASSUME StartClients PROVE TypeOK'
    BY <2>8 DEF StartClients
  <2>9. ASSUME NEW d \in Dms, Send(d) \/ Forward(d) PROVE TypeOK'
    <3>1. CASE Send(d)
      <4>1. {<<d, c>> : c \in {x \in conns : x.agent = To[d]}} \subseteq Dms \X Connections
        OBVIOUS
      <4>2. forwards' \subseteq Dms \X Connections
        BY <3>1, <4>1 DEF Send
      <4>3. QED
        BY <3>1, <4>2 DEF Send
    <3>2. CASE Forward(d)
      BY <3>2 DEF Forward
    <3>3. QED
      BY <2>9, <3>1, <3>2
  <2>10. CASE UNCHANGED vars
    BY <2>10 DEF vars
  <2>11. QED
    BY <2>1, <2>2, <2>3, <2>4, <2>5, <2>6, <2>7, <2>8, <2>9, <2>10 DEF Next, Reconcile
<1>3. QED
  BY <1>1, <1>2, PTL DEF Spec
-----------------------------------------------------------------------------
(* The inductive invariant of the connections and the messages.  A         *)
(* connection is that of the running client of its agent, or it is being   *)
(* closed, and until it is nothing else runs for that agent; so a message  *)
(* comes in by one connection at most, and is forwarded before it is taken.*)
ConnsAreKnown == \A c \in conns : c = closing \/ running[c.agent] = c.token

ClosingIsPopped ==
  /\ closing # Nothing => step = "closing"
  /\ step = "closing" => closing # Nothing /\ running[closing.agent] = Nothing

ForwardedOnce ==
  /\ \A f, g \in forwards : f[1] = g[1] => f = g
  /\ \A f \in forwards : f[1] \in sent /\ taken[f[1]] = 0
  /\ \A d \in Dms : taken[d] <= 1 /\ (d \notin sent => taken[d] = 0)

IInv == TypeOK /\ ConnsAreKnown /\ ClosingIsPopped /\ ForwardedOnce

\* An agent never has two connections.
LEMMA OneConnection ==
  ASSUME IInv, NEW c \in conns, NEW e \in conns, c.agent = e.agent
  PROVE  c = e
<1>1. c \in Connections /\ e \in Connections
  BY DEF IInv, TypeOK
<1>2. c.token = e.token
  <2>1. CASE closing = c
    BY <1>1, <2>1, WorkerAssumption DEF IInv, ConnsAreKnown, ClosingIsPopped, Connections
  <2>2. CASE closing = e
    BY <1>1, <2>2, WorkerAssumption DEF IInv, ConnsAreKnown, ClosingIsPopped, Connections
  <2>3. CASE closing \notin {c, e}
    BY <2>3 DEF IInv, ConnsAreKnown
  <2>4. QED
    BY <2>1, <2>2, <2>3
<1>3. QED
  BY <1>1, <1>2 DEF Connections

\* The steps of the worker and of Discord that move no message.
LEMMA LoopHolds ==
  ASSUME TypeOK, IInv, TypeOK',
         \/ \E a \in Agents : Edit(a) \/ Dies(a) \/ ReadAgent(a)
         \/ Restart \/ BeginRound \/ FetchFails \/ FetchDone
         \/ PopClient \/ ClientClosed \/ StartClients
  PROVE  IInv'
<1> USE DEF IInv, TypeOK, loopVars, dmVars, Connections, Conn, NoClients, MaybeToken
<1>1. ASSUME NEW a \in Agents, Edit(a) \/ Dies(a) \/ ReadAgent(a) PROVE IInv'
  BY <1>1 DEF Edit, Dies, ReadAgent, ConnsAreKnown, ClosingIsPopped, ForwardedOnce
<1>2. ASSUME Restart PROVE IInv'
  BY <1>2 DEF Restart, ConnsAreKnown, ClosingIsPopped, ForwardedOnce
<1>3. ASSUME BeginRound \/ FetchFails PROVE IInv'
  BY <1>3 DEF BeginRound, FetchFails, ConnsAreKnown, ClosingIsPopped, ForwardedOnce
<1>4. ASSUME FetchDone PROVE IInv'
  <2>1. ForwardedOnce' /\ ClosingIsPopped'
    BY <1>4 DEF FetchDone, ForwardedOnce, ClosingIsPopped
  <2>2. ASSUME NEW c \in conns PROVE c = closing' \/ running'[c.agent] = c.token
    <3>1. c \in Connections /\ (c = closing \/ running[c.agent] = c.token)
      BY <2>2 DEF ConnsAreKnown
    <3>2. running[c.agent] = c.token => c = Conn(c.agent, running[c.agent])
      BY <3>1
    <3>3. running[c.agent] = c.token => ~ Dead(c.agent)
      BY <2>2, <3>2 DEF Dead
    <3>4. c.agent \in Agents
      BY <3>1
    <3>5. QED
      BY <1>4, <3>1, <3>3, <3>4 DEF FetchDone
  <2>3. QED
    BY <1>4, <2>1, <2>2 DEF FetchDone, ConnsAreKnown
<1>5. ASSUME PopClient PROVE IInv'
  <2>1. PICK a \in Agents : /\ running' = [running EXCEPT ![a] = Nothing]
                            /\ closing' = Conn(a, running[a]) /\ running[a] # Nothing
                            /\ step = "stop" /\ step' = "closing"
                            /\ UNCHANGED <<conns, forwards, sent, taken>>
    BY <1>5 DEF PopClient, Unwanted
  <2>2. closing' # Nothing /\ closing'.agent = a
    BY <2>1, WorkerAssumption
  <2>3. closing = Nothing
    BY <2>1 DEF ClosingIsPopped
  <2>4. ASSUME NEW c \in conns PROVE c = closing' \/ running'[c.agent] = c.token
    <3>1. c \in Connections /\ (c = closing \/ running[c.agent] = c.token)
      BY <2>4 DEF ConnsAreKnown
    <3>2. CASE c.agent = a
      BY <2>1, <2>3, <3>1, <3>2, WorkerAssumption
    <3>3. CASE c.agent # a
      BY <2>1, <2>3, <3>1, <3>3, WorkerAssumption
    <3>4. QED
      BY <3>2, <3>3
  <2>5. QED
    BY <2>1, <2>2, <2>4 DEF ConnsAreKnown, ClosingIsPopped, ForwardedOnce
<1>6. ASSUME ClientClosed PROVE IInv'
  BY <1>6 DEF ClientClosed, ConnsAreKnown, ClosingIsPopped, ForwardedOnce
<1>7. ASSUME StartClients PROVE IInv'
  <2>1. closing = Nothing /\ step' = "asleep" /\ UNCHANGED <<closing, forwards, sent, taken>>
    BY <1>7 DEF StartClients, ClosingIsPopped
  <2>2. ASSUME NEW c \in conns' PROVE c = closing' \/ running'[c.agent] = c.token
    BY <1>7, <2>1, <2>2, WorkerAssumption DEF StartClients, ConnsAreKnown
  <2>3. QED
    BY <2>1, <2>2 DEF ConnsAreKnown, ClosingIsPopped, ForwardedOnce
<1>8. QED
  BY <1>1, <1>2, <1>3, <1>4, <1>5, <1>6, <1>7

\* The steps of a message.
LEMMA MessageHolds ==
  ASSUME TypeOK, IInv, TypeOK', NEW d \in Dms, Send(d) \/ Forward(d)
  PROVE  IInv'
<1>1. ConnsAreKnown' /\ ClosingIsPopped'
  BY DEF Send, Forward, IInv, ConnsAreKnown, ClosingIsPopped, loopVars
<1>2. CASE Send(d)
  <2>1. /\ d \notin sent /\ sent' = sent \cup {d} /\ UNCHANGED taken
        /\ \A f \in forwards' : f \in forwards
                                  \/ (f[1] = d /\ f[2] \in conns /\ f[2].agent = To[d]
                                      /\ f = <<d, f[2]>>)
    BY <1>2 DEF Send
  <2>2. \A f \in forwards : f[1] # d
    BY <2>1 DEF IInv, ForwardedOnce
  <2>3. ASSUME NEW f \in forwards', NEW g \in forwards', f[1] = g[1] PROVE f = g
    BY <2>1, <2>2, <2>3, OneConnection DEF IInv, ForwardedOnce
  <2>4. taken[d] = 0
    BY <2>1 DEF IInv, ForwardedOnce
  <2>5. QED
    BY <1>1, <2>1, <2>3, <2>4 DEF IInv, ForwardedOnce
<1>3. CASE Forward(d)
  <2>1. PICK c \in Connections :
           /\ <<d, c>> \in forwards /\ forwards' = forwards \ {<<d, c>>} /\ sent' = sent
           /\ taken' = [taken EXCEPT ![d] = @ + 1] \/ taken' = taken
    BY <1>3 DEF Forward
  <2>2. taken[d] = 0 /\ d \in sent /\ taken \in [Dms -> Nat]
    BY <2>1 DEF IInv, ForwardedOnce, TypeOK
  <2>3. \A f \in forwards' : f \in forwards /\ f[1] # d /\ f[1] \in Dms
    BY <2>1 DEF IInv, ForwardedOnce, TypeOK
  <2>4. \A e \in Dms : taken'[e] = taken[e] \/ (e = d /\ taken'[e] = 1)
    BY <2>1, <2>2
  <2>5. ForwardedOnce'
    BY <2>1, <2>2, <2>3, <2>4 DEF IInv, ForwardedOnce
  <2>6. QED
    BY <1>1, <2>5 DEF IInv
<1>4. QED
  BY <1>2, <1>3

\* A direct message is taken by the Forum at most once.
THEOREM MessagesAreTakenOnce == Spec => []EachDmOnce
<1>1. Init => IInv
  <2> SUFFICES ASSUME Init PROVE IInv
    OBVIOUS
  <2>1. TypeOK
    BY WorkerAssumption DEF Init, TypeOK, MaybeToken, NoClients
  <2>2. QED
    BY <2>1 DEF Init, IInv, ConnsAreKnown, ClosingIsPopped, ForwardedOnce
<1>2. TypeOK /\ TypeOK' /\ IInv /\ [Next]_vars => IInv'
  <2> SUFFICES ASSUME TypeOK, TypeOK', IInv, [Next]_vars PROVE IInv'
    OBVIOUS
  <2>1. CASE UNCHANGED vars
    BY <2>1 DEF vars, loopVars, dmVars, IInv, ConnsAreKnown, ClosingIsPopped, ForwardedOnce
  <2>2. QED
    BY <2>1, LoopHolds, MessageHolds DEF Next, Reconcile
<1>3. IInv => EachDmOnce
  BY DEF IInv, ForwardedOnce, EachDmOnce
<1>4. QED
  BY <1>1, <1>2, <1>3, TypeCorrect, PTL DEF Spec
-----------------------------------------------------------------------------
(* What the worker believes of an agent that was not edited, and whose     *)
(* token was always read, since its client started: the client has the     *)
(* current token, and so has the fetch, once it has come to the agent.     *)
Steady ==
  \A a \in Agents \ wavered :
    /\ running[a] # Nothing => running[a] = config[a]
    /\ step \in {"stop", "closing"} \/ (step = "fetch" /\ a \notin unread)
          => desired[a] = config[a]

\* The worker closes no client without a reason: a failed fetch closes none,
\* and a complete one only those that were edited or could not be read.
THEOREM ClosesOnlyWithAReason == Spec => NoBotStoppedForNothing
<1>1. Init => Steady
  BY DEF Init, Steady, NoClients
<1>2. TypeOK /\ Steady /\ [Next]_vars => Steady'
  <2> SUFFICES ASSUME TypeOK, Steady, [Next]_vars PROVE Steady'
    OBVIOUS
  <2> USE DEF Steady, TypeOK, loopVars, MaybeToken
  <2>1. ASSUME NEW a \in Agents, Edit(a) PROVE Steady'
    BY <2>1 DEF Edit
  <2>2. ASSUME NEW a \in Agents, Dies(a) PROVE Steady'
    BY <2>2 DEF Dies
  <2>3. ASSUME Restart \/ BeginRound \/ FetchFails PROVE Steady'
    BY <2>3 DEF Restart, BeginRound, FetchFails, NoClients
  <2>4. ASSUME NEW a \in Agents, ReadAgent(a) PROVE Steady'
    BY <2>4 DEF ReadAgent
  <2>5. ASSUME FetchDone PROVE Steady'
    BY <2>5 DEF FetchDone
  <2>6. ASSUME PopClient \/ ClientClosed PROVE Steady'
    BY <2>6 DEF PopClient, ClientClosed
  <2>7. ASSUME StartClients PROVE Steady'
    BY <2>7 DEF StartClients
  <2>8. ASSUME NEW d \in Dms, Send(d) \/ Forward(d) PROVE Steady'
    BY <2>8 DEF Send, Forward
  <2>9. CASE UNCHANGED vars
    BY <2>9 DEF vars
  <2>10. QED
    BY <2>1, <2>2, <2>3, <2>4, <2>5, <2>6, <2>7, <2>8, <2>9 DEF Next, Reconcile
<1>3. TypeOK /\ Steady /\ [Next]_vars =>
        [\A a \in Agents : running[a] # Nothing /\ running'[a] = Nothing
                             => a \in wavered \/ Dead(a) \/ Restart]_vars
  <2> SUFFICES ASSUME TypeOK, Steady, Next, NEW a \in Agents,
                      running[a] # Nothing, running'[a] = Nothing
               PROVE  a \in wavered \/ Dead(a) \/ Restart
    OBVIOUS
  <2> USE DEF TypeOK, loopVars
  <2>1. CASE FetchDone
    BY <2>1 DEF FetchDone
  <2>2. CASE PopClient
    BY <2>2 DEF PopClient, Unwanted, Steady
  <2>3. CASE StartClients
    BY <2>3 DEF StartClients
  <2>4. CASE UNCHANGED running
    BY <2>4
  <2>5. ~ (FetchDone \/ PopClient \/ StartClients \/ Restart) => UNCHANGED running
    BY DEF Next, Reconcile, BeginRound, ReadAgent, ClientClosed, FetchFails, Edit, Dies,
           Send, Forward
  <2>6. QED
    BY <2>1, <2>2, <2>3, <2>4, <2>5
<1>4. QED
  BY <1>1, <1>2, <1>3, TypeCorrect, PTL DEF Spec, NoBotStoppedForNothing
=============================================================================
