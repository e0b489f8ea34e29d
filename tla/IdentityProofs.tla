--------------------------- MODULE IdentityProofs ---------------------------
(***************************************************************************)
(* For any number of messages, accounts, people and users: whatever fails  *)
(* or overlaps, a user never holds accounts of two people and a newcomer   *)
(* does not take the name of a user stored before its stamp; and while     *)
(* nothing fails and nobody is worked on twice at once, users are unified  *)
(* and accounts have one user.                                             *)
(***************************************************************************)
EXTENDS Identity, FiniteSetTheorems, SequenceTheorems, WellFoundedInduction, TLAPS

\* What the query answers first is one of the users it found.
LEMMA FirstFound ==
  ASSUME NEW S \in SUBSET UserIds, S # {}
  PROVE  First(S) \in S
BY IdentityAssumption DEF First

\* What a profile gives is an entry and an email of the right kind.
LEMMA KnownType ==
  ASSUME TypeOK, NEW t \in Turns
  PROVE  /\ Known(t).entry \in Linked
         /\ Known(t).entry.account = who[t]
         /\ Known(t).entry.name \in Names
         /\ Known(t).email \in Emails \cup {Nothing}
         /\ Known(t).email # Nothing => Known(t).email = EmailOf[who[t]]
BY IdentityAssumption DEF TypeOK, Known, Linked

-----------------------------------------------------------------------------
(* The inductive invariant.  A document is of one person from its creation *)
(* on: its accounts are, and so is every account with its email.  A turn   *)
(* that found a user by email, and the script, then work on a document of  *)
(* the person they work for.                                               *)
Of(d, p) ==
  /\ d.identities # <<>>
  /\ \A i \in DOMAIN d.identities : PersonOf[d.identities[i].account] = p
  /\ \A b \in Accounts : EmailOf[b] # Nothing /\ EmailOf[b] = d.email => PersonOf[b] = p

DocsAreOf == \A u \in Existing : Of(users[u], Owner(u))

TurnsWorkOnTheirs ==
  \A t \in Turns :
    /\ pc[t] = "email" => Known(t).email # Nothing
    /\ pc[t] \in {"link", "union", "reload"} =>
          held[t] \in Existing /\ Of(users[held[t]], PersonOf[who[t]])

ScriptWorksOnTheirs ==
  script.step \in {"check", "write"} =>
    /\ script.user \in Existing /\ Of(users[script.user], PersonOf[script.account])
    /\ script.copy # <<>>
    /\ \A i \in DOMAIN script.copy : PersonOf[script.copy[i].account] = PersonOf[script.account]

IInv == TypeOK /\ DocsAreOf /\ TurnsWorkOnTheirs /\ ScriptWorksOnTheirs

\* The first account tells whose a document is.
LEMMA OwnerIs ==
  ASSUME NEW u \in UserIds, users[u] \in User, NEW p, Of(users[u], p)
  PROVE  Owner(u) = p
<1>1. users[u].identities \in Seq(Linked) /\ users[u].identities # <<>>
  BY DEF Of, User
<1>2. 1 \in DOMAIN users[u].identities
  BY <1>1
<1>3. QED
  BY <1>2 DEF Of, Owner

\* An added account of the person leaves the document theirs.
LEMMA OfAppend ==
  ASSUME NEW s \in Seq(Linked), NEW e \in Linked, NEW p, PersonOf[e.account] = p,
         \A i \in DOMAIN s : PersonOf[s[i].account] = p
  PROVE  /\ Append(s, e) \in Seq(Linked) /\ Append(s, e) # <<>>
         /\ \A i \in DOMAIN Append(s, e) : PersonOf[Append(s, e)[i].account] = p
OBVIOUS

\* A document replaced by one of the same person, or a new one, disturbs
\* neither the others nor who works on them.
LEMMA DocStep ==
  ASSUME IInv, NEW u \in UserIds, NEW d \in User, NEW p, Of(d, p),
         users[u] # Nothing => Of(users[u], p),
         users' = [users EXCEPT ![u] = d]
  PROVE  /\ users' \in [UserIds -> User \cup {Nothing}]
         /\ DocsAreOf'
         /\ \A v \in Existing : /\ v \in Existing'
                               /\ \A q : Of(users[v], q) => Of(users[v], q)'
<1>1. users \in [UserIds -> User \cup {Nothing}] /\ d # Nothing
  BY IdentityAssumption DEF IInv, TypeOK
<1>2. users' \in [UserIds -> User \cup {Nothing}]
  BY <1>1
<1>3. \A v \in UserIds : users'[v] = IF v = u THEN d ELSE users[v]
  BY <1>1
<1>4. ASSUME NEW v \in Existing, NEW q, Of(users[v], q)
      PROVE  v \in Existing' /\ Of(users[v], q)'
  <2>1. v \in UserIds /\ users[v] # Nothing /\ users[v] \in User
    BY <1>1 DEF Existing
  <2>2. v = u => q = p
    BY <1>4, <2>1, OwnerIs
  <2>3. Of(users'[v], q)
    BY <1>3, <1>4, <2>1, <2>2
  <2>4. QED
    BY <1>1, <1>3, <2>1, <2>3 DEF Existing, Of
<1>5. DocsAreOf'
  <2> SUFFICES ASSUME NEW v \in Existing' PROVE Of(users'[v], Owner(v)')
    BY DEF DocsAreOf, Of
  <2>1. v \in UserIds /\ users'[v] # Nothing
    BY DEF Existing
  <2>2. CASE v = u
    <3>1. users'[u] = d /\ d.identities \in Seq(Linked) /\ d.identities # <<>>
      BY <1>3 DEF Of, User
    <3>2. 1 \in DOMAIN d.identities
      BY <3>1
    <3>3. PersonOf[d.identities[1].account] = p
      BY <3>2 DEF Of
    <3>4. Owner(v)' = p
      BY <2>2, <3>1, <3>3 DEF Owner
    <3>5. QED
      BY <2>2, <3>1, <3>4
  <2>3. CASE v # u
    BY <1>3, <2>1, <2>3 DEF IInv, DocsAreOf, Existing, Owner
  <2>4. QED
    BY <2>2, <2>3
<1>6. \A v \in Existing : v \in Existing'
  BY <1>1, <1>3 DEF Existing
<1>7. QED
  BY <1>2, <1>4, <1>5, <1>6

\* A step that leaves the documents alone only has to answer for the turns
\* and the script.
LEMMA SameDocs ==
  ASSUME IInv, UNCHANGED users
  PROVE  /\ DocsAreOf'
         /\ \A v \in Existing : /\ v \in Existing'
                               /\ \A q : Of(users[v], q) => Of(users[v], q)'
BY DEF IInv, DocsAreOf, Existing, Of, Owner

\* A profile's email is of the sender, and a new user of it is the sender's.
LEMMA NewUserIsTheirs ==
  ASSUME IInv, NEW t \in Turns, NEW n
  PROVE  LET d == [primary |-> Known(t).entry.name, email |-> Known(t).email,
                   identities |-> <<Known(t).entry>>, created |-> n]
         IN  /\ n \in Nat => d \in User
             /\ Of(d, PersonOf[who[t]])
<1> DEFINE d == [primary |-> Known(t).entry.name, email |-> Known(t).email,
                 identities |-> <<Known(t).entry>>, created |-> n]
<1>1. TypeOK
  BY DEF IInv
<1>2. n \in Nat => d \in User
  BY <1>1, KnownType DEF User
<1>3. who[t] \in Accounts
  BY <1>1 DEF TypeOK
<1>4. \A b \in Accounts : EmailOf[b] # Nothing /\ EmailOf[b] = d.email
                            => PersonOf[b] = PersonOf[who[t]]
  BY <1>1, <1>3, KnownType, IdentityAssumption
<1>5. d.identities # <<>> /\ \A i \in DOMAIN d.identities : d.identities[i] = Known(t).entry
  OBVIOUS
<1>6. \A i \in DOMAIN d.identities : PersonOf[d.identities[i].account] = PersonOf[who[t]]
  BY <1>1, <1>5, KnownType
<1>7. QED
  BY <1>2, <1>4, <1>5, <1>6 DEF Of

-----------------------------------------------------------------------------
LEMMA InitHolds == Init => IInv
<1> SUFFICES ASSUME Init PROVE IInv
  OBVIOUS
<1>1. TypeOK
  BY IdentityAssumption DEF Init, TypeOK, Over, Linked
<1>2. DocsAreOf
  BY DEF Init, DocsAreOf, Existing
<1>3. TurnsWorkOnTheirs
  BY DEF Init, TurnsWorkOnTheirs
<1>4. ScriptWorksOnTheirs
  BY DEF Init, ScriptWorksOnTheirs
<1>5. QED
  BY <1>1, <1>2, <1>3, <1>4 DEF IInv

\* The reads of a turn: what it finds by email is of its sender.
LEMMA ReadsHold ==
  ASSUME IInv, NEW t \in Turns,
         \/ Begin(t) \/ FindIdentity(t) \/ FindIdentityFails(t)
         \/ FindEmail(t) \/ FindEmailFails(t) \/ LinkRead(t) \/ Reload(t)
         \/ Stamp(t) \/ Raise(t)
  PROVE  IInv'
<1> USE DEF IInv, TypeOK, Goto, Over, stamped
<1>1. UNCHANGED <<users, script>>
  BY DEF Begin, FindIdentity, FindIdentityFails, FindEmail, FindEmailFails, LinkRead, Reload,
         Stamp, Raise, Serve
<1>2. DocsAreOf'
  BY <1>1, SameDocs
<1>3. ScriptWorksOnTheirs'
  BY <1>1, SameDocs DEF ScriptWorksOnTheirs
<1>5. ASSUME Begin(t) PROVE TypeOK' /\ TurnsWorkOnTheirs'
  BY <1>1, <1>5, SameDocs DEF Begin, TurnsWorkOnTheirs, Known
<1>6. ASSUME FindIdentity(t) \/ FindIdentityFails(t) PROVE TypeOK' /\ TurnsWorkOnTheirs'
  <2> DEFINE found == {u \in Scanned : who[t] \in AccountsOf(u)}
  <2>0. found \in SUBSET UserIds
    BY DEF Scanned, Existing
  <2>1. found # {} => First(found) \in UserIds
    BY <2>0, FirstFound
  <2> HIDE DEF found
  <2>2. CASE found # {} /\ Serve(t, "identity", First(found)) /\ UNCHANGED <<calm, who, profiled, stamped>>
    BY <1>1, <2>1, <2>2, SameDocs DEF Serve, TurnsWorkOnTheirs, Known
  <2>3. CASE /\ Goto(t, "identity", NotFound(t))
             /\ UNCHANGED <<held, served, who, profiled, stamped>> /\ calm' \in BOOLEAN
    BY <1>1, <2>3, SameDocs DEF NotFound, TurnsWorkOnTheirs, Known
  <2>4. QED
    BY <1>6, <2>2, <2>3 DEF FindIdentity, FindIdentityFails, found
<1>7. ASSUME FindEmail(t) \/ FindEmailFails(t) PROVE TypeOK' /\ TurnsWorkOnTheirs'
  <2> DEFINE found == {u \in Existing : users[u].email = Known(t).email}
  <2>0. found \in SUBSET UserIds
    BY DEF Existing
  <2>1. found # {} => First(found) \in found
    BY <2>0, FirstFound
  <2>2. CASE /\ Goto(t, "email", "link") /\ found # {}
             /\ held' = [held EXCEPT ![t] = First(found)]
             /\ UNCHANGED <<who, profiled, served, calm, stamped>>
    <3> DEFINE u == First(found)
    <3>1. u \in Existing /\ users[u].email = Known(t).email /\ Known(t).email # Nothing
      BY <2>1, <2>2 DEF TurnsWorkOnTheirs
    <3>2. users[u].email = EmailOf[who[t]] /\ EmailOf[who[t]] # Nothing /\ who[t] \in Accounts
      BY <3>1, KnownType
    <3> HIDE DEF u, found
    <3>3. Of(users[u], PersonOf[who[t]])
      BY <3>1, <3>2 DEF DocsAreOf, Of
    <3>4. u \in UserIds
      BY <3>1 DEF Existing
    <3>5. held' = [held EXCEPT ![t] = u]
      BY <2>2 DEF u
    <3>6. TypeOK'
      BY <1>1, <2>2, <3>4, <3>5
    <3>7. TurnsWorkOnTheirs'
      BY <1>1, <2>2, <3>1, <3>3, <3>5, SameDocs DEF TurnsWorkOnTheirs, Known
    <3>8. QED
      BY <3>6, <3>7
  <2>3. CASE /\ Goto(t, "email", "create")
             /\ UNCHANGED <<who, profiled, held, served, stamped>> /\ calm' \in BOOLEAN
    BY <1>1, <2>3, SameDocs DEF TurnsWorkOnTheirs, Known
  <2>4. QED
    BY <1>7, <2>2, <2>3 DEF FindEmail, FindEmailFails
<1>8. ASSUME LinkRead(t) PROVE TypeOK' /\ TurnsWorkOnTheirs'
  BY <1>1, <1>8, SameDocs DEF LinkRead, TurnsWorkOnTheirs, Known
<1>9. ASSUME Reload(t) PROVE TypeOK' /\ TurnsWorkOnTheirs'
  <2>1. held[t] \in UserIds
    BY <1>9 DEF Reload, Serve, TurnsWorkOnTheirs, Existing
  <2>2. QED
    BY <1>1, <1>9, <2>1, SameDocs DEF Reload, Serve, TurnsWorkOnTheirs, Known
<1>10. ASSUME Raise(t) PROVE TypeOK' /\ TurnsWorkOnTheirs'
  BY <1>1, <1>10, SameDocs DEF Raise, TurnsWorkOnTheirs, Known
<1>11. ASSUME Stamp(t) PROVE TypeOK' /\ TurnsWorkOnTheirs'
  <2>1. Existing \in SUBSET UserIds
    BY DEF Existing
  <2>2. PICK n \in Nat : stamp' = [stamp EXCEPT ![t] = n]
    BY <1>11, IdentityAssumption DEF Stamp
  <2>3. /\ pc' = [pc EXCEPT ![t] = "store"] /\ seen' = [seen EXCEPT ![t] = Existing]
        /\ UNCHANGED <<who, profiled, held, served, calm>>
    BY <1>11 DEF Stamp
  <2>4. TypeOK'
    BY <1>1, <2>1, <2>2, <2>3
  <2>5. TurnsWorkOnTheirs'
    BY <1>1, <2>3, SameDocs DEF TurnsWorkOnTheirs, Known
  <2>6. QED
    BY <2>4, <2>5
<1>12. QED
  BY <1>2, <1>3, <1>5, <1>6, <1>7, <1>8, <1>9, <1>10, <1>11

\* What a turn or the operator writes is of the person the document is of.
LEMMA WritesHold ==
  ASSUME IInv, NEW t \in Turns, LinkWrite(t) \/ Create(t)
  PROVE  IInv'
<1> USE DEF IInv, TypeOK, Goto, Over, stamped
<1>1. ASSUME LinkWrite(t) PROVE IInv'
  <2> DEFINE u == held[t]
             p == PersonOf[who[t]]
             d == [users[u] EXCEPT !.identities = Append(@, Known(t).entry)]
  <2>1. u \in Existing /\ u \in UserIds /\ users[u] \in User /\ Of(users[u], p)
    BY <1>1 DEF LinkWrite, TurnsWorkOnTheirs, Existing
  <2>2. /\ d \in User /\ d.email = users[u].email
        /\ d.identities = Append(users[u].identities, Known(t).entry)
    <3>1. /\ users[u].identities \in Seq(Linked) /\ Known(t).entry \in Linked
          /\ DOMAIN users[u] = {"primary", "email", "identities", "created"}
      BY <2>1, KnownType DEF User
    <3>2. Append(users[u].identities, Known(t).entry) \in Seq(Linked)
      BY <3>1
    <3>3. \A x \in Seq(Linked) : /\ [users[u] EXCEPT !.identities = x] \in User
                                /\ [users[u] EXCEPT !.identities = x].email = users[u].email
                                /\ [users[u] EXCEPT !.identities = x].identities = x
      BY <2>1 DEF User
    <3>4. QED
      BY <3>2, <3>3
  <2>3. Of(d, p)
    BY <2>1, <2>2, KnownType, OfAppend DEF Of, User
  <2>4. users' = [users EXCEPT ![u] = d]
    BY <1>1 DEF LinkWrite
  <2> HIDE DEF u, p, d
  <2>5. /\ users' \in [UserIds -> User \cup {Nothing}] /\ DocsAreOf'
        /\ \A v \in Existing : /\ v \in Existing'
                              /\ \A q : Of(users[v], q) => Of(users[v], q)'
    BY <2>1, <2>2, <2>3, <2>4, DocStep
  <2>6. /\ pc' = [pc EXCEPT ![t] = "reload"]
        /\ UNCHANGED <<who, profiled, held, script, served, calm, stamped>>
    BY <1>1 DEF LinkWrite
  <2>7. TypeOK'
    BY <2>5, <2>6
  <2>8. TurnsWorkOnTheirs'
    BY <2>1, <2>5, <2>6 DEF TurnsWorkOnTheirs, Known, u, p
  <2>9. ScriptWorksOnTheirs'
    BY <2>5, <2>6 DEF ScriptWorksOnTheirs
  <2>10. QED
    BY <2>5, <2>7, <2>8, <2>9
<1>2. ASSUME Create(t) PROVE IInv'
  <2>1. PICK u \in UserIds \ Existing :
           /\ Serve(t, "store", u)
           /\ users' = [users EXCEPT ![u] =
                           [primary |-> Known(t).entry.name, email |-> Known(t).email,
                            identities |-> <<Known(t).entry>>, created |-> stamp[t]]]
           /\ stamp' = [stamp EXCEPT ![t] = 0] /\ seen' = [seen EXCEPT ![t] = {}]
           /\ UNCHANGED <<who, profiled, script, calm>>
    BY <1>2 DEF Create
  <2> DEFINE p == PersonOf[who[t]]
             d == [primary |-> Known(t).entry.name, email |-> Known(t).email,
                   identities |-> <<Known(t).entry>>, created |-> stamp[t]]
  <2>2. d \in User /\ Of(d, p)
    BY NewUserIsTheirs
  <2>3. users[u] = Nothing /\ users' = [users EXCEPT ![u] = d]
    BY <2>1 DEF Existing
  <2> HIDE DEF p, d
  <2>4. /\ users' \in [UserIds -> User \cup {Nothing}] /\ DocsAreOf'
        /\ \A v \in Existing : /\ v \in Existing'
                              /\ \A q : Of(users[v], q) => Of(users[v], q)'
    BY <2>2, <2>3, DocStep
  <2>5. TypeOK'
    BY <2>1, <2>4 DEF Serve
  <2>6. TurnsWorkOnTheirs'
    BY <2>1, <2>4 DEF TurnsWorkOnTheirs, Known, Serve
  <2>7. ScriptWorksOnTheirs'
    BY <2>1, <2>4 DEF ScriptWorksOnTheirs
  <2>8. QED
    BY <2>4, <2>5, <2>6, <2>7
<1>3. QED
  BY <1>1, <1>2

\* The operator's hand: he enters what is the person's, and his script
\* copies, completes and writes back what is theirs.
LEMMA OperatorHolds ==
  ASSUME IInv, EditUser \/ ScriptRead \/ ScriptCheck \/ ScriptWrite
  PROVE  IInv'
<1> USE DEF IInv, TypeOK, stamped
<1>1. ASSUME EditUser PROVE IInv'
  <2>1. PICK u \in Existing, e \in {Nothing} \cup Emails : \E n \in NamesOf(u) :
           /\ e # Nothing => \E a \in Accounts : EmailOf[a] = e /\ PersonOf[a] = Owner(u)
           /\ users' = [users EXCEPT ![u].email = e, ![u].primary = n]
           /\ calm' \in BOOLEAN
           /\ UNCHANGED <<pc, who, profiled, held, script, served, stamped>>
    BY <1>1 DEF EditUser
  <2>2. PICK n \in NamesOf(u) :
           users' = [users EXCEPT ![u].email = e, ![u].primary = n]
    BY <2>1
  <2> DEFINE p == Owner(u)
             d == [users[u] EXCEPT !.email = e, !.primary = n]
  <2>3. u \in UserIds /\ users[u] \in User /\ Of(users[u], p)
    BY DEF DocsAreOf, Existing
  <2>4. n \in Names
    BY <2>2, <2>3 DEF NamesOf, User, Linked
  <2>5. d \in User /\ d.email = e /\ d.identities = users[u].identities
    BY <2>3, <2>4 DEF User
  <2>6. \A b \in Accounts : EmailOf[b] # Nothing /\ EmailOf[b] = e => PersonOf[b] = p
    BY <2>1, IdentityAssumption
  <2>7. Of(d, p)
    BY <2>3, <2>5, <2>6 DEF Of
  <2>8. users' = [users EXCEPT ![u] = d]
    BY <2>2
  <2> HIDE DEF p, d
  <2>9. /\ users' \in [UserIds -> User \cup {Nothing}] /\ DocsAreOf'
        /\ \A v \in Existing : /\ v \in Existing'
                              /\ \A q : Of(users[v], q) => Of(users[v], q)'
    BY <2>3, <2>5, <2>7, <2>8, DocStep
  <2>10. TypeOK'
    BY <2>1, <2>9
  <2>11. TurnsWorkOnTheirs'
    BY <2>1, <2>9 DEF TurnsWorkOnTheirs, Known
  <2>12. ScriptWorksOnTheirs'
    BY <2>1, <2>9 DEF ScriptWorksOnTheirs
  <2>13. QED
    BY <2>9, <2>10, <2>11, <2>12
<1>2. ASSUME ScriptRead PROVE IInv'
  <2>1. PICK u \in Existing, a \in Accounts :
           LET here == {i \in DOMAIN users[u].identities :
                           users[u].identities[i].account = a}
               entry == [account |-> a, name |-> NameOf[a]]
           IN  /\ PersonOf[a] = Owner(u)
               /\ script' =
                    [step |-> IF here # {} THEN "write" ELSE "check",
                     user |-> u, account |-> a, name |-> NameOf[a],
                     copy |-> IF here # {}
                              THEN [users[u].identities EXCEPT ![First(here)] = entry]
                              ELSE users[u].identities]
               /\ calm' \in BOOLEAN
               /\ UNCHANGED <<users, pc, who, profiled, held, served, stamped>>
    BY <1>2 DEF ScriptRead
  <2> DEFINE s == users[u].identities
             e == [account |-> a, name |-> NameOf[a]]
  <2>2. /\ s \in Seq(Linked) /\ u \in UserIds /\ NameOf[a] \in Names
        /\ Of(users[u], PersonOf[a])
    BY <2>1, IdentityAssumption DEF Existing, User, DocsAreOf
  <2>3. /\ s # <<>> /\ e \in Linked /\ e.account = a
        /\ \A i \in DOMAIN s : PersonOf[s[i].account] = PersonOf[a]
    BY <2>2 DEF Of, Linked
  <2>5. \E i : script'.copy \in {s, [s EXCEPT ![i] = e]}
    BY <2>1
  <2> HIDE DEF s, e
  <2>6. /\ script'.copy \in Seq(Linked) /\ script'.copy # <<>>
        /\ \A i \in DOMAIN script'.copy : PersonOf[script'.copy[i].account] = PersonOf[a]
    <3>1. PICK i : script'.copy \in {s, [s EXCEPT ![i] = e]}
      BY <2>5
    <3>2. CASE script'.copy = s
      BY <2>2, <2>3, <3>2
    <3>3. CASE script'.copy = [s EXCEPT ![i] = e]
      <4>1. /\ [s EXCEPT ![i] = e] \in Seq(Linked)
            /\ DOMAIN [s EXCEPT ![i] = e] = DOMAIN s
            /\ \A j \in DOMAIN s : [s EXCEPT ![i] = e][j] \in {s[j], e}
        <5>1. s \in Seq(Linked) /\ e \in Linked
          BY <2>2, <2>3
        <5>2. /\ DOMAIN [s EXCEPT ![i] = e] = DOMAIN s
              /\ \A j \in DOMAIN s : [s EXCEPT ![i] = e][j] \in {s[j], e}
          BY Zenon
        <5>3. CASE i \in 1 .. Len(s)
          BY <5>1, <5>2, <5>3, ExceptSeq
        <5>4. CASE i \notin 1 .. Len(s)
          <6>1. DOMAIN s = 1 .. Len(s)
            BY <5>1
          <6>2. [s EXCEPT ![i] = e] = s
            BY <5>1, <5>4, <6>1
          <6>3. QED
            BY <5>1, <5>2, <6>2
        <5>5. QED
          BY <5>3, <5>4
      <4>2. [s EXCEPT ![i] = e] # <<>>
        BY <2>2, <2>3, <4>1
      <4>3. \A j \in DOMAIN s : PersonOf[[s EXCEPT ![i] = e][j].account] = PersonOf[a]
        BY <2>3, <4>1
      <4>4. QED
        BY <3>3, <4>1, <4>2, <4>3
    <3>4. QED
      BY <3>1, <3>2, <3>3
  <2>7. /\ script'.step \in {"check", "write"} /\ script'.user = u /\ script'.account = a
        /\ script'.name = NameOf[a]
        /\ script' = [step |-> script'.step, user |-> u, account |-> a, name |-> NameOf[a],
                      copy |-> script'.copy]
    BY <2>1
  <2>8. TypeOK'
    BY <2>1, <2>2, <2>6, <2>7
  <2>9. DocsAreOf' /\ TurnsWorkOnTheirs'
    BY <2>1, SameDocs DEF TurnsWorkOnTheirs, Known
  <2>10. ScriptWorksOnTheirs'
    BY <2>1, <2>2, <2>6, <2>7, SameDocs DEF ScriptWorksOnTheirs
  <2>11. QED
    BY <2>8, <2>9, <2>10
<1>3. ASSUME ScriptCheck PROVE IInv'
  <2> DEFINE e == [account |-> script.account, name |-> script.name]
  <2>1. /\ script.user \in Existing /\ script.user \in UserIds /\ e \in Linked
        /\ script.copy \in Seq(Linked)
        /\ \A i \in DOMAIN script.copy : PersonOf[script.copy[i].account] = PersonOf[e.account]
    BY <1>3 DEF ScriptCheck, ScriptWorksOnTheirs, Existing, Linked
  <2>2. /\ Append(script.copy, e) \in Seq(Linked) /\ Append(script.copy, e) # <<>>
        /\ \A i \in DOMAIN Append(script.copy, e) :
              PersonOf[Append(script.copy, e)[i].account] = PersonOf[script.account]
    BY <2>1, OfAppend
  <2>3. DocsAreOf' /\ TurnsWorkOnTheirs'
    BY <1>3, SameDocs DEF ScriptCheck, TurnsWorkOnTheirs, Known
  <2>4. TypeOK' /\ ScriptWorksOnTheirs'
    <3>1. CASE script' = [script EXCEPT !.step = "ended"]
      BY <1>3, <3>1 DEF ScriptCheck, ScriptWorksOnTheirs
    <3>2. CASE script' = [script EXCEPT !.step = "write", !.copy = Append(@, e)]
      <4>1. /\ script'.step = "write" /\ script'.user = script.user
            /\ script'.account = script.account /\ script'.name = script.name
            /\ script'.copy = Append(script.copy, e)
        BY <3>2
      <4>2. TypeOK'
        BY <1>3, <2>1, <2>2, <3>2 DEF ScriptCheck
      <4>3. ScriptWorksOnTheirs'
        BY <1>3, <2>1, <2>2, <4>1, SameDocs DEF ScriptCheck, ScriptWorksOnTheirs
      <4>4. QED
        BY <4>2, <4>3
    <3>3. QED
      BY <1>3, <3>1, <3>2 DEF ScriptCheck
  <2>5. QED
    BY <2>3, <2>4
<1>4. ASSUME ScriptWrite PROVE IInv'
  <2> DEFINE u == script.user
             p == PersonOf[script.account]
             d == [users[u] EXCEPT !.identities = script.copy]
  <2>1. /\ u \in Existing /\ u \in UserIds /\ users[u] \in User /\ Of(users[u], p)
        /\ script.copy \in Seq(Linked) /\ script.copy # <<>>
        /\ \A i \in DOMAIN script.copy : PersonOf[script.copy[i].account] = p
    BY <1>4 DEF ScriptWrite, ScriptWorksOnTheirs, Existing
  <2>2. d \in User /\ d.email = users[u].email /\ d.identities = script.copy
    BY <2>1 DEF User
  <2>3. Of(d, p)
    BY <2>1, <2>2 DEF Of
  <2>4. users' = [users EXCEPT ![u] = d]
    BY <1>4 DEF ScriptWrite
  <2> HIDE DEF u, p, d
  <2>5. /\ users' \in [UserIds -> User \cup {Nothing}] /\ DocsAreOf'
        /\ \A v \in Existing : /\ v \in Existing'
                              /\ \A q : Of(users[v], q) => Of(users[v], q)'
    BY <2>1, <2>2, <2>3, <2>4, DocStep
  <2>6. /\ script' = [script EXCEPT !.step = "ended"]
        /\ UNCHANGED <<pc, who, profiled, held, served, calm, stamped>>
    BY <1>4 DEF ScriptWrite
  <2>7. TypeOK' /\ ScriptWorksOnTheirs'
    BY <2>5, <2>6 DEF ScriptWorksOnTheirs
  <2>8. TurnsWorkOnTheirs'
    BY <2>5, <2>6 DEF TurnsWorkOnTheirs, Known
  <2>9. QED
    BY <2>5, <2>7, <2>8
<1>5. QED
  BY <1>1, <1>2, <1>3, <1>4
-----------------------------------------------------------------------------
LEMMA Invariant == Spec => []IInv
<1>1. IInv /\ [Next]_vars => IInv'
  <2> SUFFICES ASSUME IInv, [Next]_vars PROVE IInv'
    OBVIOUS
  <2>1. CASE UNCHANGED vars
    BY <2>1, SameDocs DEF vars, stamped, IInv, TypeOK, TurnsWorkOnTheirs, ScriptWorksOnTheirs, Known
  <2>2. QED
    BY <2>1, ReadsHold, WritesHold, OperatorHolds DEF Next
<1>2. QED
  BY <1>1, InitHolds, PTL DEF Spec

\* Documents, turns and the script keep their types.  It rests on the whole
\* invariant: a link is only written to a document that exists.
THEOREM TypeCorrect == Spec => []TypeOK
<1>1. IInv => TypeOK
  BY DEF IInv
<1>2. QED
  BY <1>1, Invariant, PTL

\* Whatever fails, and whoever is worked on twice at once, no user ever
\* holds accounts of two people or another person's email.
THEOREM NobodyIsMixedUp == Spec => []OnePersonPerUser
<1>1. IInv => OnePersonPerUser
  <2> SUFFICES ASSUME IInv, NEW u \in Existing, NEW a \in AccountsOf(u)
               PROVE  /\ \A b \in AccountsOf(u) : PersonOf[b] = PersonOf[a]
                      /\ \A b \in Accounts :
                            EmailOf[b] # Nothing /\ EmailOf[b] = users[u].email
                               => PersonOf[b] = PersonOf[a]
    BY DEF OnePersonPerUser
  <2>1. Of(users[u], Owner(u))
    BY DEF IInv, DocsAreOf
  <2>2. \A b \in AccountsOf(u) : PersonOf[b] = Owner(u)
    BY <2>1 DEF Of, AccountsOf
  <2>3. QED
    BY <2>1, <2>2 DEF Of
<1>2. QED
  BY <1>1, Invariant, PTL
-----------------------------------------------------------------------------
(* Names.  A stamp is later than those of all users stored when it was     *)
(* taken, so a newcomer comes after each of them.                          *)
SeenBefore ==
  \A t \in Turns : pc[t] = "store" =>
    seen[t] \subseteq Existing /\ \A u \in seen[t] : users[u].created < stamp[t]

LEMMA LeastNatural ==
  ASSUME NEW S \in SUBSET Nat, S # {}
  PROVE  \E n \in S : \A m \in S : n <= m
<1>1. PICK n \in S : \A m \in S : <<m, n>> \notin OpToRel(<, Nat)
  BY NatLessThanWellFounded, WFMin
<1>2. \A m \in S : ~ (m < n)
  BY <1>1 DEF OpToRel
<1>3. QED
  BY <1>2

LEMMA CreatedInNat == TypeOK => \A u \in Existing : users[u] \in User /\ users[u].created \in Nat
BY DEF TypeOK, Existing, User

\* What the entries of a document are.
LEMMA EntriesAreLinked ==
  ASSUME NEW s \in Seq(Linked), NEW i \in DOMAIN s
  PROVE  /\ s[i] \in Linked
         /\ s[i].account \in Accounts
         /\ s[i].name \in Names
<1>1. s[i] \in Linked
  OBVIOUS
<1>2. QED
  BY <1>1 DEF Linked

\* What the admin page writes is a document again.
LEMMA EditedDocument ==
  ASSUME users \in [UserIds -> User \cup {Nothing}], NEW w \in UserIds, users[w] \in User,
         NEW e \in {Nothing} \cup Emails, NEW n \in NamesOf(w),
         users' = [users EXCEPT ![w].email = e, ![w].primary = n]
  PROVE  /\ users'[w] \in User /\ users'[w].email = e
         /\ users'[w].identities = users[w].identities
         /\ users'[w].created = users[w].created
         /\ users' = [users EXCEPT ![w] = users'[w]]
<1> DEFINE d == [users[w] EXCEPT !.email = e, !.primary = n]
<1>1. users[w].primary \in Names /\ users[w].identities \in Seq(Linked)
  BY DEF User
<1>2. \A i \in DOMAIN users[w].identities : users[w].identities[i].name \in Names
  BY <1>1, EntriesAreLinked
<1>3. n \in Names
  BY <1>1, <1>2 DEF NamesOf
<1>4. d \in User /\ d.email = e /\ d.identities = users[w].identities
      /\ d.created = users[w].created
  BY <1>3 DEF User
<1>5. users' = [users EXCEPT ![w] = d]
  OBVIOUS
<1> HIDE DEF d
<1>6. users'[w] = d
  BY <1>5
<1>7. QED
  BY <1>4, <1>5, <1>6

\* Everything but create_user leaves the users there are, and their times.
LEMMA OnlyCreateAdds ==
  ASSUME IInv, [Next]_vars
  PROVE  \/ \E t \in Turns : Create(t)
         \/ /\ Existing' = Existing
            /\ \A u \in Existing : users'[u].created = users[u].created
<1> SUFFICES ASSUME ~ \E t \in Turns : Create(t)
             PROVE  /\ Existing' = Existing
                    /\ \A u \in Existing : users'[u].created = users[u].created
  OBVIOUS
<1>1. users \in [UserIds -> User \cup {Nothing}] /\ Nothing \notin User
  BY IdentityAssumption DEF IInv, TypeOK
<1>2. CASE UNCHANGED users
  BY <1>2 DEF Existing
<1>3. ASSUME NEW u \in Existing, NEW d \in User, d.created = users[u].created,
             users' = [users EXCEPT ![u] = d]
      PROVE  /\ Existing' = Existing
             /\ \A v \in Existing : users'[v].created = users[v].created
  BY <1>1, <1>3 DEF Existing
<1>4. ASSUME NEW t \in Turns, LinkWrite(t)
      PROVE  \E u \in Existing : \E d \in User :
                d.created = users[u].created /\ users' = [users EXCEPT ![u] = d]
  <2> DEFINE s == Append(users[held[t]].identities, Known(t).entry)
  <2>1. held[t] \in Existing /\ users[held[t]] \in User
    BY <1>1, <1>4 DEF LinkWrite, Goto, IInv, TurnsWorkOnTheirs, Existing
  <2>2. s \in Seq(Linked)
    BY <2>1, KnownType DEF IInv, User
  <2> HIDE DEF s
  <2>3. /\ [users[held[t]] EXCEPT !.identities = s] \in User
        /\ [users[held[t]] EXCEPT !.identities = s].created = users[held[t]].created
    BY <2>1, <2>2 DEF User
  <2>4. users' = [users EXCEPT ![held[t]] = [users[held[t]] EXCEPT !.identities = s]]
    BY <1>4 DEF LinkWrite, s
  <2>5. QED
    BY <2>1, <2>3, <2>4
<1>5. ASSUME EditUser
      PROVE  \E u \in Existing : \E d \in User :
                d.created = users[u].created /\ users' = [users EXCEPT ![u] = d]
  <2>1. PICK u \in Existing, e \in {Nothing} \cup Emails : \E n \in NamesOf(u) :
           users' = [users EXCEPT ![u].email = e, ![u].primary = n]
    BY <1>5 DEF EditUser
  <2>2. PICK n \in NamesOf(u) : users' = [users EXCEPT ![u].email = e, ![u].primary = n]
    BY <2>1
  <2>3. users[u] \in User
    BY <1>1 DEF Existing
  <2>4. u \in UserIds
    BY DEF Existing
  <2>5. users'[u] \in User /\ users'[u].created = users[u].created
        /\ users' = [users EXCEPT ![u] = users'[u]]
    BY <1>1, <2>2, <2>3, <2>4, EditedDocument
  <2>6. QED
    BY <2>5
<1>6. ASSUME ScriptWrite
      PROVE  \E u \in Existing : \E d \in User :
                d.created = users[u].created /\ users' = [users EXCEPT ![u] = d]
  <2> DEFINE u == script.user
             d == [users[u] EXCEPT !.identities = script.copy]
  <2>1. u \in Existing /\ users[u] \in User /\ script.copy \in Seq(Linked)
    BY <1>1, <1>6 DEF ScriptWrite, IInv, TypeOK, ScriptWorksOnTheirs, Existing
  <2>2. d \in User /\ d.created = users[u].created
    BY <2>1 DEF User
  <2>3. users' = [users EXCEPT ![u] = d]
    BY <1>6 DEF ScriptWrite
  <2>4. QED
    BY <2>1, <2>2, <2>3
<1>7. CASE \E t \in Turns : \/ Begin(t) \/ FindIdentity(t) \/ FindIdentityFails(t)
                            \/ FindEmail(t) \/ FindEmailFails(t)
                            \/ LinkRead(t) \/ Reload(t) \/ Stamp(t) \/ Raise(t)
  BY <1>2, <1>7 DEF Begin, FindIdentity, FindIdentityFails, FindEmail, FindEmailFails,
                    LinkRead, Reload, Stamp, Raise
<1>8. CASE ScriptRead \/ ScriptCheck \/ UNCHANGED vars
  BY <1>2, <1>8 DEF ScriptRead, ScriptCheck, vars
<1>9. CASE EditUser \/ ScriptWrite \/ \E t \in Turns : LinkWrite(t)
  BY <1>3, <1>4, <1>5, <1>6, <1>9
<1>10. QED
  BY <1>7, <1>8, <1>9 DEF Next

\* A newcomer is stored with the time its turn took, beside those there are.
LEMMA CreateAdds ==
  ASSUME IInv, NEW t \in Turns, Create(t)
  PROVE  \E u \in UserIds \ Existing :
            /\ Existing' = Existing \cup {u}
            /\ users'[u].created = stamp[t]
            /\ \A v \in Existing : users'[v] = users[v]
<1>1. users \in [UserIds -> User \cup {Nothing}] /\ Nothing \notin User /\ stamp[t] \in Nat
  BY IdentityAssumption DEF IInv, TypeOK
<1> DEFINE d == [primary |-> Known(t).entry.name, email |-> Known(t).email,
                 identities |-> <<Known(t).entry>>, created |-> stamp[t]]
<1>2. d \in User /\ d.created = stamp[t]
  BY <1>1, NewUserIsTheirs
<1>3. PICK u \in UserIds \ Existing : users' = [users EXCEPT ![u] = d]
  BY DEF Create
<1> HIDE DEF d
<1>4. QED
  BY <1>1, <1>2, <1>3 DEF Existing

\* A turn with a stamp got it just now or has had it since.
LEMMA StampsStay ==
  ASSUME IInv, [Next]_vars, NEW t \in Turns, pc'[t] = "store"
  PROVE  \/ Stamp(t)
         \/ pc[t] = "store" /\ stamp'[t] = stamp[t] /\ seen'[t] = seen[t]
<1> USE DEF Goto
<1>1. /\ pc \in [Turns -> Over \cup {"identity", "email", "link", "union", "reload", "create", "store"}]
      /\ stamp \in [Turns -> Nat] /\ seen \in [Turns -> SUBSET UserIds]
  BY DEF IInv, TypeOK
<1>2. CASE UNCHANGED <<pc, stamped>>
  BY <1>2 DEF stamped
<1>3. ASSUME NEW s \in Turns, UNCHANGED stamped,
             pc' = [pc EXCEPT ![s] = pc'[s]], pc'[s] # "store"
      PROVE  pc[t] = "store" /\ stamp'[t] = stamp[t] /\ seen'[t] = seen[t]
  BY <1>1, <1>3 DEF stamped
<1>4. ASSUME NEW s \in Turns,
             \/ Begin(s) \/ FindIdentity(s) \/ FindIdentityFails(s)
             \/ FindEmail(s) \/ FindEmailFails(s)
             \/ LinkRead(s) \/ LinkWrite(s) \/ Reload(s) \/ Raise(s)
      PROVE  pc[t] = "store" /\ stamp'[t] = stamp[t] /\ seen'[t] = seen[t]
  <2>1. UNCHANGED stamped
    BY <1>4 DEF Begin, FindIdentity, FindIdentityFails, FindEmail, FindEmailFails,
                LinkRead, LinkWrite, Reload, Raise
  <2>2. \E l \in {"identity", "email", "link", "union", "reload", "create", "served", "raised"} :
           pc' = [pc EXCEPT ![s] = l]
    BY <1>4 DEF Begin, FindIdentity, FindIdentityFails, FindEmail, FindEmailFails,
                LinkRead, LinkWrite, Reload, Raise, Serve, NotFound
  <2>3. QED
    BY <1>1, <1>3, <2>1, <2>2
<1>5. ASSUME NEW s \in Turns, Create(s)
      PROVE  pc[t] = "store" /\ stamp'[t] = stamp[t] /\ seen'[t] = seen[t]
  BY <1>1, <1>5 DEF Create, Serve
<1>6. ASSUME NEW s \in Turns, Stamp(s), s # t
      PROVE  pc[t] = "store" /\ stamp'[t] = stamp[t] /\ seen'[t] = seen[t]
  BY <1>1, <1>6 DEF Stamp
<1>7. CASE EditUser \/ ScriptRead \/ ScriptCheck \/ ScriptWrite \/ UNCHANGED vars
  BY <1>2, <1>7 DEF EditUser, ScriptRead, ScriptCheck, ScriptWrite, vars
<1>8. QED
  BY <1>4, <1>5, <1>6, <1>7 DEF Next

\* A turn that had a stamp and is served has stored its user.
LEMMA StoredByCreate ==
  ASSUME IInv, [Next]_vars, NEW t \in Turns, pc[t] = "store", pc'[t] = "served"
  PROVE  Create(t)
<1>1. pc \in [Turns -> Over \cup {"identity", "email", "link", "union", "reload", "create", "store"}]
  BY DEF IInv, TypeOK
<1>2. ASSUME NEW s \in Turns,
             \/ Begin(s) \/ FindIdentity(s) \/ FindIdentityFails(s)
             \/ FindEmail(s) \/ FindEmailFails(s)
             \/ LinkRead(s) \/ LinkWrite(s) \/ Reload(s) \/ Stamp(s) \/ Raise(s)
      PROVE  FALSE
  <2>1. PICK from \in {"idle", "identity", "email", "link", "union", "reload", "create", "store"},
             to \in {"identity", "email", "link", "union", "reload", "create", "store",
                     "served", "raised"} :
           Goto(s, from, to) /\ (from = "store" => to = "raised")
    BY <1>2 DEF Begin, FindIdentity, FindIdentityFails, FindEmail, FindEmailFails,
                LinkRead, LinkWrite, Reload, Stamp, Raise, Serve, NotFound
  <2>2. QED
    BY <1>1, <2>1 DEF Goto
<1>3. ASSUME NEW s \in Turns, Create(s) PROVE s = t
  BY <1>1, <1>3 DEF Create, Serve, Goto
<1>4. CASE EditUser \/ ScriptRead \/ ScriptCheck \/ ScriptWrite \/ UNCHANGED vars
  BY <1>1, <1>4 DEF EditUser, ScriptRead, ScriptCheck, ScriptWrite, vars
<1>5. QED
  BY <1>2, <1>3, <1>4 DEF Next

LEMMA SeenStayBefore ==
  ASSUME IInv, SeenBefore, [Next]_vars
  PROVE  SeenBefore'
<1> SUFFICES ASSUME NEW t \in Turns, pc'[t] = "store"
             PROVE  /\ seen'[t] \subseteq Existing'
                    /\ \A u \in seen'[t] : users'[u].created < stamp'[t]
  BY DEF SeenBefore
<1>1. Existing \subseteq Existing' /\ \A u \in Existing : users'[u].created = users[u].created
  BY OnlyCreateAdds, CreateAdds
<1>2. CASE Stamp(t)
  <2>1. seen'[t] = Existing /\ \A u \in Existing : users[u].created < stamp'[t]
    BY <1>2 DEF Stamp, IInv, TypeOK
  <2>2. QED
    BY <1>1, <2>1
<1>3. CASE pc[t] = "store" /\ stamp'[t] = stamp[t] /\ seen'[t] = seen[t]
  BY <1>1, <1>3 DEF SeenBefore
<1>4. QED
  BY <1>2, <1>3, StampsStay

LEMMA SeenAreBefore == Spec => []SeenBefore
<1>1. Init => SeenBefore
  BY DEF Init, SeenBefore
<1>2. QED
  BY <1>1, SeenStayBefore, Invariant, PTL DEF Spec

\* The order of the lookup has one first user among those of a name.
LEMMA FirstCreated ==
  ASSUME TypeOK, NEW named \in SUBSET Existing, named # {}
  PROVE  \E w \in named : /\ \A v \in named : Before(w, v)
                          /\ \A x \in named : (\A v \in named : Before(x, v)) => x = w
<1> DEFINE times == {users[v].created : v \in named}
<1>1. \A v \in named : users[v].created \in Nat
  BY CreatedInNat
<1>2. times \in SUBSET Nat /\ times # {}
  BY <1>1
<1>3. PICK n \in times : \A m \in times : n <= m
  BY <1>2, LeastNatural
<1> DEFINE earliest == {v \in named : users[v].created = n}
<1>4. earliest \in SUBSET UserIds /\ earliest # {}
  BY <1>3 DEF Existing
<1>5. PICK w \in earliest : \A v \in earliest : w <= v
  BY <1>4, IdentityAssumption
<1>6. \A v \in named : Before(w, v)
  <2> SUFFICES ASSUME NEW v \in named PROVE Before(w, v)
    OBVIOUS
  <2>1. n <= users[v].created /\ users[w].created = n
    BY <1>3
  <2>2. n \in Nat /\ users[v].created \in Nat
    BY <1>1, <1>2
  <2>3. QED
    BY <1>5, <2>1, <2>2 DEF Before
<1>7. \A x \in named : (\A v \in named : Before(x, v)) => x = w
  <2> SUFFICES ASSUME NEW x \in named, Before(x, w) PROVE x = w
    OBVIOUS
  <2>1. Before(w, x) /\ users[w].created \in Nat /\ users[x].created \in Nat
    BY <1>1, <1>6
  <2>2. w \in Nat /\ x \in Nat
    BY IdentityAssumption DEF Existing
  <2>3. QED
    BY <2>1, <2>2 DEF Before
<1>8. QED
  BY <1>6, <1>7

\* A newcomer with somebody's name comes after them in the lookup, where
\* they were stored when it took its stamp.
LEMMA NewcomerComesLast ==
  ASSUME IInv, SeenBefore, NEW t \in Turns, Create(t), NEW n, ByAnyName(n) \in seen[t]
  PROVE  ByAnyName(n)' = ByAnyName(n)
<1>1. PICK u \in UserIds \ Existing :
            /\ Existing' = Existing \cup {u}
            /\ users'[u].created = stamp[t]
            /\ \A v \in Existing : users'[v] = users[v]
  BY CreateAdds
<1> DEFINE named == {v \in Existing : n \in NamesOf(v)}
           later == {v \in Existing' : n \in NamesOf(v)'}
<1>2. named # {}
  BY IdentityAssumption DEF ByAnyName, IInv, TypeOK
<1>3. named \subseteq later /\ later \subseteq named \cup {u}
  BY <1>1 DEF NamesOf
<1>4. PICK w \in named : /\ \A v \in named : Before(w, v)
                         /\ \A x \in named : (\A v \in named : Before(x, v)) => x = w
  BY <1>2, FirstCreated DEF IInv
<1>5. ByAnyName(n) = w
  BY <1>2, <1>4 DEF ByAnyName
<1>6. /\ \A v, x \in named : Before(v, x)' = Before(v, x)
      /\ Before(w, u)' /\ ~ Before(u, w)'
  <2>1. users[w].created < stamp[t]
    BY <1>5 DEF SeenBefore, Create, Serve, Goto
  <2>2. users'[w] = users[w] /\ users[w].created \in Nat /\ stamp[t] \in Nat
    BY <1>1, CreatedInNat DEF IInv, TypeOK
  <2>3. \A v, x \in named : Before(v, x)' = Before(v, x)
    BY <1>1 DEF Before
  <2>4. QED
    BY <1>1, <2>1, <2>2, <2>3 DEF Before
<1>7. w \in later
  BY <1>3, <1>4
<1> HIDE DEF named, later
<1>8. \A v \in later : Before(w, v)'
  BY <1>3, <1>4, <1>6
<1>9. \A x \in later : (\A v \in later : Before(x, v)') => x = w
  BY <1>3, <1>4, <1>6, <1>7
<1>10. ByAnyName(n)' = CHOOSE x \in later : \A v \in later : Before(x, v)'
  BY <1>7 DEF ByAnyName, later
<1>11. QED
  BY <1>5, <1>7, <1>8, <1>9, <1>10

\* Whatever fails or overlaps, and whoever turns up: a name that stood for
\* a user when the newcomer took its stamp, and still does when it is
\* stored, goes on standing for that user.
THEOREM NewcomersAreNobodyElse == Spec => NewcomersTakeNoName
<1>1. ASSUME IInv, [Next]_vars, NEW t \in Turns, pc[t] = "store", pc'[t] = "served"
      PROVE  Create(t)
  BY <1>1, StoredByCreate
<1>2. IInv /\ SeenBefore /\ [Next]_vars
        => [\A t \in Turns, n \in Names :
              pc[t] = "store" /\ pc'[t] = "served" /\ ByAnyName(n) \in seen[t]
                => ByAnyName(n)' = ByAnyName(n)]_vars
  BY <1>1, NewcomerComesLast
<1>3. QED
  BY <1>2, Invariant, SeenAreBefore, PTL DEF Spec, NewcomersTakeNoName
-----------------------------------------------------------------------------
(* While all is calm the collection is what a unified user promises.  It   *)
(* takes that nobody is worked on twice at once (Apart), and then that     *)
(* what a turn or the script has read of its person is still so when it    *)
(* writes (TurnsKnow, ScriptKnows).                                        *)
HoldersOf(a) == {u \in Existing : a \in AccountsOf(u)}
CopyAccounts == {script.copy[i].account : i \in DOMAIN script.copy}

Apart ==
  \A t \in Turns : pc[t] \notin Over =>
    /\ \A s \in Turns \ {t} : pc[s] \notin Over => PersonOf[who[s]] # PersonOf[who[t]]
    /\ script.step \in {"check", "write"} => PersonOf[script.account] # PersonOf[who[t]]

OneHolder == \A a \in Accounts : \A u, v \in HoldersOf(a) : u = v

OneEmail ==
  \A u, v \in Existing :
    users[u].email = users[v].email /\ users[u].email # Nothing => u = v

OnePerPlatform ==
  \A u \in Existing : \A a, b \in AccountsOf(u) :
    PlatformOf[a] = PlatformOf[b] =>
      \/ a = b
      \/ script.step = "ended" /\ script.account \in {a, b}

TurnKnows(t) ==
  /\ pc[t] \in {"email", "link", "union", "create", "store"} => HoldersOf(who[t]) = {}
  /\ pc[t] \in {"create", "store"} /\ Known(t).email # Nothing =>
        \A u \in Existing : users[u].email # Known(t).email
  /\ pc[t] = "union" => \A a \in AccountsOf(held[t]) : PlatformOf[a] # PlatformOf[who[t]]
  /\ pc[t] = "reload" => held[t] \in HoldersOf(who[t])

TurnsKnow == \A t \in Turns : TurnKnows(t)

ScriptKnows ==
  /\ script.step = "check" => CopyAccounts = AccountsOf(script.user)
  /\ script.step = "write" => /\ CopyAccounts = AccountsOf(script.user) \cup {script.account}
                              /\ HoldersOf(script.account) \subseteq {script.user}

ServedByHolders == \A a \in Accounts : served[a] \subseteq HoldersOf(a)

Peace ==
  /\ Apart /\ OneHolder /\ OneEmail /\ OnePerPlatform
  /\ TurnsKnow /\ ScriptKnows /\ ServedByHolders

CalmInv == calm => Peace

LEMMA Shapes ==
  IInv => /\ DOMAIN pc = Turns /\ DOMAIN who = Turns /\ DOMAIN profiled = Turns
          /\ DOMAIN held = Turns /\ DOMAIN served = Accounts
          /\ \A t \in Turns : who[t] \in Accounts
          /\ \A u \in Existing : u \in UserIds /\ users[u] \in User
BY DEF IInv, TypeOK, Existing

\* A failure, or work on somebody who is being worked on, is not forgotten.
LEMMA CalmIsOver == [Next]_vars => (calm' => calm)
BY DEF Next, vars, Begin, FindIdentity, FindIdentityFails, FindEmail, FindEmailFails, LinkRead,
       LinkWrite, Reload, Stamp, Create, Raise, Serve, EditUser, ScriptRead, ScriptCheck, ScriptWrite

LEMMA FirstIndex ==
  ASSUME NEW S \in SUBSET Nat, S # {}
  PROVE  First(S) \in S
BY LeastNatural DEF First

\* The accounts of a longer array.
LEMMA AccountsAppend ==
  ASSUME NEW s \in Seq(Linked), NEW e
  PROVE  {Append(s, e)[i].account : i \in DOMAIN Append(s, e)}
            = {s[i].account : i \in DOMAIN s} \cup {e.account}
<1>1. /\ DOMAIN Append(s, e) = DOMAIN s \cup {Len(s) + 1}
      /\ \A i \in DOMAIN s : Append(s, e)[i] = s[i]
      /\ Append(s, e)[Len(s) + 1] = e
  OBVIOUS
<1>2. QED
  BY <1>1

\* The accounts of an array with an entry rewritten for the same account.
LEMMA AccountsRewritten ==
  ASSUME NEW s \in Seq(Linked), NEW j \in DOMAIN s, NEW e, e.account = s[j].account,
         NEW r, r = [s EXCEPT ![j] = e]
  PROVE  {r[i].account : i \in DOMAIN r} = {s[i].account : i \in DOMAIN s}
<1>1. DOMAIN r = DOMAIN s /\ \A i \in DOMAIN s : r[i] = IF i = j THEN e ELSE s[i]
  OBVIOUS
<1>2. \A i \in DOMAIN s : r[i].account = s[i].account
  BY <1>1
<1>3. QED
  BY <1>1, <1>2

\* Turns come and go one person at a time.
LEMMA ApartStays ==
  ASSUME Apart,
         \A s \in Turns : pc'[s] \notin Over => pc[s] \notin Over /\ who'[s] = who[s],
         script'.step \in {"check", "write"} =>
            script.step \in {"check", "write"} /\ script'.account = script.account
  PROVE  Apart'
BY DEF Apart, Over

-----------------------------------------------------------------------------
(* The steps that only read.                                               *)
LEMMA ReadStep ==
  ASSUME IInv, Peace, NEW t \in Turns, UNCHANGED <<users, script>>,
         \A s \in Turns \ {t} : /\ pc'[s] = pc[s] /\ who'[s] = who[s]
                               /\ profiled'[s] = profiled[s] /\ held'[s] = held[s],
         TurnKnows(t)', Apart',
         \A a \in Accounts : served'[a] \subseteq HoldersOf(a)
  PROVE  Peace'
<1>1. /\ Existing' = Existing
      /\ \A u : AccountsOf(u)' = AccountsOf(u)
      /\ \A a : HoldersOf(a)' = HoldersOf(a)
      /\ CopyAccounts' = CopyAccounts
  BY DEF Existing, AccountsOf, HoldersOf, CopyAccounts
<1>2. OneHolder' /\ OneEmail' /\ OnePerPlatform' /\ ScriptKnows'
  BY <1>1 DEF Peace, OneHolder, OneEmail, OnePerPlatform, ScriptKnows
<1>3. ServedByHolders'
  BY <1>1 DEF ServedByHolders
<1>4. \A s \in Turns \ {t} : TurnKnows(s)'
  <2> SUFFICES ASSUME NEW s \in Turns \ {t} PROVE TurnKnows(s)'
    OBVIOUS
  <2>1. TurnKnows(s) /\ Known(s)' = Known(s)
    BY DEF Peace, TurnsKnow, Known
  <2>2. QED
    BY <1>1, <2>1 DEF TurnKnows
<1>5. QED
  BY <1>2, <1>3, <1>4 DEF Peace, TurnsKnow

LEMMA ReadsKeepPeace ==
  ASSUME IInv, Peace, calm', NEW t \in Turns,
         \/ Begin(t) \/ FindIdentity(t) \/ FindIdentityFails(t)
         \/ FindEmail(t) \/ FindEmailFails(t) \/ LinkRead(t) \/ Reload(t)
         \/ Stamp(t) \/ Raise(t)
  PROVE  Peace'
<1> USE Shapes
<1>1. ASSUME Begin(t) PROVE Peace'
  <2>1. PICK a \in Accounts, found \in BOOLEAN :
           /\ Goto(t, "idle", "identity")
           /\ who' = [who EXCEPT ![t] = a]
           /\ profiled' = [profiled EXCEPT ![t] = found]
           /\ PersonOf[a] \notin InHand
           /\ UNCHANGED <<users, held, script, served>>
    BY <1>1 DEF Begin
  <2>2. TurnKnows(t)'
    BY <2>1 DEF TurnKnows, Goto
  <2>3. \A s \in Turns \ {t} : /\ pc'[s] = pc[s] /\ who'[s] = who[s]
                              /\ profiled'[s] = profiled[s] /\ held'[s] = held[s]
    BY <2>1 DEF Goto
  <2>4. /\ \A s \in Turns : pc[s] \notin Over => PersonOf[who[s]] # PersonOf[a]
        /\ script.step \in {"check", "write"} => PersonOf[script.account] # PersonOf[a]
    BY <2>1 DEF InHand
  <2>5. who'[t] = a /\ script' = script
    BY <2>1
  <2>6. Apart'
    BY <2>3, <2>4, <2>5 DEF Apart, Peace
  <2>7. \A a_1 \in Accounts : served'[a_1] \subseteq HoldersOf(a_1)
    BY <2>1 DEF Peace, ServedByHolders
  <2>8. QED
    BY <2>1, <2>2, <2>3, <2>6, <2>7, ReadStep
<1>2. ASSUME FindIdentity(t) PROVE Peace'
  <2> DEFINE found == {u \in Scanned : who[t] \in AccountsOf(u)}
  <2>1. /\ found \in SUBSET HoldersOf(who[t]) /\ found \in SUBSET UserIds
    BY DEF Scanned, Existing, HoldersOf
  <2>2. found # {} => First(found) \in found
    BY <2>1, FirstFound
  <2>3. /\ pc[t] = "identity" /\ UNCHANGED <<users, who, profiled, script>>
        /\ IF found # {}
           THEN Serve(t, "identity", First(found))
           ELSE /\ Goto(t, "identity", NotFound(t))
                /\ \A u \in Existing : who[t] \notin AccountsOf(u)
                /\ UNCHANGED <<held, served>>
    BY <1>2 DEF FindIdentity
  <2> HIDE DEF found
  <2>4. CASE found # {}
    <3>1. /\ pc' = [pc EXCEPT ![t] = "served"] /\ held' = [held EXCEPT ![t] = First(found)]
          /\ served' = [served EXCEPT ![who[t]] = @ \cup {First(found)}]
      BY <2>3, <2>4 DEF Serve, Goto
    <3>2. TurnKnows(t)'
      BY <3>1 DEF TurnKnows
    <3>3. Apart'
      BY <2>3, <3>1, ApartStays DEF Peace, Over
    <3>4. \A a \in Accounts : served'[a] \subseteq HoldersOf(a)
      BY <2>1, <2>2, <2>4, <3>1 DEF Peace, ServedByHolders
    <3>5. QED
      BY <2>3, <3>1, <3>2, <3>3, <3>4, ReadStep
  <2>5. CASE found = {}
    <3>1. /\ pc' = [pc EXCEPT ![t] = NotFound(t)] /\ UNCHANGED <<held, served>>
          /\ HoldersOf(who[t]) = {}
      BY <2>3, <2>5 DEF Goto, HoldersOf
    <3>2. /\ HoldersOf(who[t])' = {} /\ Known(t)' = Known(t)
      BY <2>3, <3>1 DEF HoldersOf, Existing, AccountsOf, Known
    <3>3. TurnKnows(t)'
      BY <2>3, <3>1, <3>2 DEF TurnKnows, NotFound
    <3>4. Apart'
      BY <2>3, <3>1, ApartStays DEF Peace, Over
    <3>5. \A a \in Accounts : served'[a] \subseteq HoldersOf(a)
      BY <3>1 DEF Peace, ServedByHolders
    <3>6. QED
      BY <2>3, <3>1, <3>3, <3>4, <3>5, ReadStep
  <2>6. QED
    BY <2>4, <2>5
<1>3. ASSUME FindEmail(t) PROVE Peace'
  <2> DEFINE found == {u \in Existing : users[u].email = Known(t).email}
  <2>1. /\ pc[t] = "email" /\ UNCHANGED <<users, who, profiled, script, served>>
        /\ \/ found # {} /\ pc' = [pc EXCEPT ![t] = "link"]
              /\ held' = [held EXCEPT ![t] = First(found)]
           \/ found = {} /\ pc' = [pc EXCEPT ![t] = "create"] /\ UNCHANGED held
    BY <1>3 DEF FindEmail, Goto
  <2>2. HoldersOf(who[t])' = {} /\ Known(t)' = Known(t) /\ Existing' = Existing
    BY <2>1 DEF Peace, TurnsKnow, TurnKnows, HoldersOf, Existing, AccountsOf, Known
  <2>3. TurnKnows(t)'
    BY <2>1, <2>2 DEF TurnKnows
  <2>4. Apart'
    BY <2>1, ApartStays DEF Peace, Over
  <2>5. \A a \in Accounts : served'[a] \subseteq HoldersOf(a)
    BY <2>1 DEF Peace, ServedByHolders
  <2>6. QED
    BY <2>1, <2>3, <2>4, <2>5, ReadStep
<1>4. ASSUME LinkRead(t) PROVE Peace'
  <2> DEFINE u == held[t]
             p == PlatformOf[who[t]]
             s == users[u].identities
             at == {i \in DOMAIN s : PlatformOf[s[i].account] = p}
  <2>1. /\ pc[t] = "link" /\ UNCHANGED <<users, who, profiled, held, script, served>>
        /\ \/ OnPlatform(u, p) = Nothing /\ pc' = [pc EXCEPT ![t] = "union"]
           \/ OnPlatform(u, p) = who[t] /\ pc' = [pc EXCEPT ![t] = "reload"]
           \/ pc' = [pc EXCEPT ![t] = "raised"]
    BY <1>4 DEF LinkRead, Goto
  <2>2. u \in Existing /\ users[u] \in User
    BY <2>1 DEF IInv, TurnsWorkOnTheirs
  <2>3. s \in Seq(Linked)
    BY <2>2 DEF User
  <2>4. at # {} => First(at) \in at
    <3>1. at \in SUBSET Nat
      BY <2>3
    <3>2. QED
      BY <3>1, FirstIndex
  <2>5. OnPlatform(u, p) = IF at = {} THEN Nothing ELSE s[First(at)].account
    BY DEF OnPlatform
  <2>6. at # {} => /\ s[First(at)].account \in Accounts
                   /\ s[First(at)].account \in AccountsOf(u)
    BY <2>3, <2>4, EntriesAreLinked DEF AccountsOf
  <2>14. at = {} => \A a \in AccountsOf(u) : PlatformOf[a] # p
    BY DEF AccountsOf
  <2> HIDE DEF u, p, s, at
  <2>7. OnPlatform(u, p) = Nothing => \A a \in AccountsOf(u) : PlatformOf[a] # p
    BY <2>5, <2>6, <2>14, IdentityAssumption
  <2>8. OnPlatform(u, p) = who[t] => u \in HoldersOf(who[t])
    BY <2>2, <2>5, <2>6, IdentityAssumption DEF HoldersOf
  <2>9. /\ HoldersOf(who[t]) = {} /\ HoldersOf(who[t])' = HoldersOf(who[t])
        /\ AccountsOf(u)' = AccountsOf(u) /\ held'[t] = u /\ who'[t] = who[t]
    BY <2>1 DEF Peace, TurnsKnow, TurnKnows, HoldersOf, Existing, AccountsOf, u
  <2>10. TurnKnows(t)'
    BY <2>1, <2>7, <2>8, <2>9 DEF TurnKnows, p, u
  <2>11. Apart'
    BY <2>1, ApartStays DEF Peace, Over
  <2>12. \A a \in Accounts : served'[a] \subseteq HoldersOf(a)
    BY <2>1 DEF Peace, ServedByHolders
  <2>13. QED
    BY <2>1, <2>10, <2>11, <2>12, ReadStep
<1>5. ASSUME Reload(t) PROVE Peace'
  <2>1. /\ pc[t] = "reload" /\ pc' = [pc EXCEPT ![t] = "served"]
        /\ held' = [held EXCEPT ![t] = held[t]]
        /\ served' = [served EXCEPT ![who[t]] = @ \cup {held[t]}]
        /\ UNCHANGED <<users, who, profiled, script>>
    BY <1>5 DEF Reload, Serve, Goto
  <2>2. held[t] \in HoldersOf(who[t])
    BY <2>1 DEF Peace, TurnsKnow, TurnKnows
  <2>3. TurnKnows(t)'
    BY <2>1 DEF TurnKnows
  <2>4. Apart'
    BY <2>1, ApartStays DEF Peace, Over
  <2>5. \A a \in Accounts : served'[a] \subseteq HoldersOf(a)
    BY <2>1, <2>2 DEF Peace, ServedByHolders
  <2>6. QED
    BY <2>1, <2>3, <2>4, <2>5, ReadStep
<1>6. ASSUME Stamp(t) PROVE Peace'
  <2>1. /\ pc[t] = "create" /\ pc' = [pc EXCEPT ![t] = "store"]
        /\ UNCHANGED <<users, who, profiled, held, script, served>>
    BY <1>6 DEF Stamp, Goto
  <2>2. /\ HoldersOf(who[t])' = HoldersOf(who[t]) /\ Known(t)' = Known(t)
        /\ Existing' = Existing /\ pc'[t] = "store" /\ TurnKnows(t)
    BY <2>1 DEF HoldersOf, Existing, AccountsOf, Known, Peace, TurnsKnow
  <2>3. TurnKnows(t)'
    BY <2>1, <2>2 DEF TurnKnows
  <2>4. Apart'
    BY <2>1, ApartStays DEF Peace, Over
  <2>5. \A a \in Accounts : served'[a] \subseteq HoldersOf(a)
    BY <2>1 DEF Peace, ServedByHolders
  <2>6. QED
    BY <2>1, <2>3, <2>4, <2>5, ReadStep
<1>7. QED
  BY <1>1, <1>2, <1>3, <1>4, <1>5, <1>6 DEF FindIdentityFails, FindEmailFails, Raise

-----------------------------------------------------------------------------
(* The steps that write: a document gets an account, one it may have, or a *)
(* new document comes with one.                                            *)
Adds(w, x) ==
  /\ w \in UserIds /\ x \in Accounts
  /\ Existing' = Existing \cup {w}
  /\ \A v \in Existing \ {w} : /\ AccountsOf(v)' = AccountsOf(v)
                              /\ users'[v].email = users[v].email
  /\ AccountsOf(w)' = {x} \cup (IF w \in Existing THEN AccountsOf(w) ELSE {})

LEMMA AddsHolder ==
  ASSUME NEW w, NEW x, Adds(w, x)
  PROVE  /\ HoldersOf(x)' = HoldersOf(x) \cup {w}
         /\ \A a : a # x => HoldersOf(a)' = HoldersOf(a)
<1>1. ASSUME NEW a PROVE HoldersOf(a)' = {v \in Existing' : a \in AccountsOf(v)'}
  BY DEF HoldersOf
<1>2. ASSUME NEW a, NEW v \in Existing'
      PROVE  a \in AccountsOf(v)' <=> \/ v \in Existing /\ a \in AccountsOf(v)
                                      \/ v = w /\ a = x
  <2>1. CASE v = w
    BY <2>1 DEF Adds
  <2>2. CASE v # w
    BY <2>2 DEF Adds
  <2>3. QED
    BY <2>1, <2>2
<1>3. Existing' = Existing \cup {w}
  BY DEF Adds
<1>4. HoldersOf(x)' = HoldersOf(x) \cup {w}
  BY <1>1, <1>2, <1>3 DEF HoldersOf
<1>5. ASSUME NEW a, a # x PROVE HoldersOf(a)' = HoldersOf(a)
  BY <1>1, <1>2, <1>3, <1>5 DEF HoldersOf
<1>6. QED
  BY <1>4, <1>5

\* The account of a document tells whose it is.
LEMMA AccountsAreOwners ==
  IInv => \A u \in Existing : \A a \in AccountsOf(u) : a \in Accounts /\ PersonOf[a] = Owner(u)
<1> SUFFICES ASSUME IInv, NEW u \in Existing, NEW i \in DOMAIN users[u].identities
             PROVE  LET a == users[u].identities[i].account
                    IN  a \in Accounts /\ PersonOf[a] = Owner(u)
  BY DEF AccountsOf
<1>1. users[u].identities \in Seq(Linked)
  BY Shapes DEF User
<1>2. users[u].identities[i].account \in Accounts
  BY <1>1, EntriesAreLinked
<1>3. Of(users[u], Owner(u))
  BY DEF IInv, DocsAreOf
<1>4. QED
  BY <1>2, <1>3 DEF Of

OwnersOfAccounts ==
  \A u \in Existing : \A a \in AccountsOf(u) : a \in Accounts /\ PersonOf[a] = Owner(u)

OwnersOfEmails ==
  \A u \in Existing, b \in Accounts :
    EmailOf[b] # Nothing /\ EmailOf[b] = users[u].email => PersonOf[b] = Owner(u)

LEMMA Owners == IInv => OwnersOfAccounts /\ OwnersOfEmails
BY AccountsAreOwners DEF OwnersOfAccounts, OwnersOfEmails, IInv, DocsAreOf, Of

EmailKnown ==
  \A s \in Turns : Known(s).email # Nothing => Known(s).email = EmailOf[who[s]]

LEMMA EmailIsKnown == IInv => EmailKnown
BY KnownType DEF IInv, EmailKnown

\* What a turn has read of its person is not disturbed by a write for
\* another person.
LEMMA OthersKnowStill ==
  ASSUME IInv, IInv', NEW w, NEW x, Adds(w, x), NEW s \in Turns, NEW b, NEW h,
         pc[s] \notin Over, TurnKnows(s), PersonOf[b] # PersonOf[x], pc'[s] = pc[s],
         who[s] = b, who'[s] = b, profiled'[s] = profiled[s], held[s] = h, held'[s] = h
  PROVE  TurnKnows(s)'
<1>1. HoldersOf(b)' = HoldersOf(b)
  BY AddsHolder
<1>2. Known(s)' = Known(s)
  BY DEF Known
<1>3. b \in Accounts
  BY Shapes
<1>4. OwnersOfAccounts' /\ OwnersOfEmails' /\ EmailKnown
  BY Owners, EmailIsKnown, PTL
<1>5. PersonOf[x] = Owner(w)'
  <2>1. w \in Existing' /\ x \in AccountsOf(w)'
    BY DEF Adds
  <2>2. QED
    BY <1>4, <2>1 DEF OwnersOfAccounts
<1>6. ASSUME NEW u \in Existing', pc[s] \in {"create", "store"}, Known(s).email # Nothing
      PROVE  users'[u].email # Known(s).email
  <2>1. CASE u # w
    BY <1>6, <2>1 DEF Adds, TurnKnows
  <2>2. CASE u = w
    <3>1. Known(s).email = EmailOf[b] /\ EmailOf[b] # Nothing
      BY <1>4, <1>6 DEF EmailKnown
    <3>2. EmailOf[b] = users'[w].email => PersonOf[b] = Owner(w)'
      BY <1>3, <1>4, <1>6, <2>2, <3>1 DEF OwnersOfEmails
    <3>3. QED
      BY <1>5, <2>2, <3>1, <3>2
  <2>3. QED
    BY <2>1, <2>2
<1>7. ASSUME pc[s] = "union"
      PROVE  AccountsOf(h)' = AccountsOf(h)
  <2>1. h \in Existing /\ Of(users[h], PersonOf[b])
    BY <1>7 DEF IInv, TurnsWorkOnTheirs
  <2>2. Of(users'[h], PersonOf[b]) /\ h \in Existing' /\ h \in UserIds
    BY <1>7 DEF IInv, TurnsWorkOnTheirs, Existing
  <2>3. users'[h] \in User
    BY <2>2 DEF IInv, TypeOK, Existing
  <2>4. Owner(h)' = PersonOf[b]
    <3>1. users'[h].identities \in Seq(Linked) /\ users'[h].identities # <<>>
      BY <2>2, <2>3 DEF Of, User
    <3>2. 1 \in DOMAIN users'[h].identities
      BY <3>1
    <3>3. PersonOf[users'[h].identities[1].account] = PersonOf[b]
      BY <2>2, <3>2 DEF Of
    <3>4. QED
      BY <3>3 DEF Owner
  <2>5. h # w
    BY <1>5, <2>4
  <2>6. QED
    BY <2>1, <2>5 DEF Adds
<1>8. /\ pc'[s] \in {"email", "link", "union", "create", "store"} => HoldersOf(who[s])' = {}
      /\ pc'[s] = "reload" => held'[s] \in HoldersOf(who[s])'
  <2>1. HoldersOf(who[s])' = HoldersOf(b)' /\ HoldersOf(who[s]) = HoldersOf(b)
    BY DEF HoldersOf
  <2>2. QED
    BY <1>1, <2>1 DEF TurnKnows
<1>9. pc'[s] = "union" => \A a \in AccountsOf(held[s])' : PlatformOf[a] # PlatformOf[who'[s]]
  <2>1. AccountsOf(held[s])' = AccountsOf(h)' /\ AccountsOf(held[s]) = AccountsOf(h)
    BY DEF AccountsOf
  <2>2. QED
    BY <1>7, <2>1 DEF TurnKnows
<1>10. QED
  BY <1>2, <1>6, <1>8, <1>9 DEF TurnKnows

\* So a write for one person keeps the peace if it keeps it with that person:
\* the account is nobody else's, and the turn, the script, the emails and the
\* platforms of the document are as they should be.
LEMMA WriteStep ==
  ASSUME IInv, IInv', Peace, NEW w, NEW x, Adds(w, x), HoldersOf(x) \subseteq {w},
         UNCHANGED <<who, profiled>>,
         \A s \in Turns :
            \/ TurnKnows(s)'
            \/ /\ pc'[s] = pc[s] /\ pc[s] \notin Over /\ held'[s] = held[s]
               /\ PersonOf[who[s]] # PersonOf[x],
         OneEmail', OnePerPlatform', ScriptKnows', Apart',
         \A a \in Accounts : served'[a] \subseteq served[a] \cup (IF a = x THEN {w} ELSE {})
  PROVE  Peace'
<1>1. /\ HoldersOf(x)' = HoldersOf(x) \cup {w}
      /\ \A a : a # x => HoldersOf(a)' = HoldersOf(a)
  BY AddsHolder
<1>2. \A a \in Accounts : \A u, v \in HoldersOf(a) : u = v
  BY DEF Peace, OneHolder
<1>3. OneHolder'
  <2>1. \A a \in Accounts : \A u, v \in HoldersOf(a)' : u = v
    BY <1>1, <1>2
  <2>2. QED
    BY <2>1 DEF OneHolder
<1>4. ServedByHolders'
  <2>1. \A a \in Accounts : served'[a] \subseteq HoldersOf(a)'
    BY <1>1 DEF Peace, ServedByHolders
  <2>2. QED
    BY <2>1 DEF ServedByHolders
<1>5. TurnsKnow'
  <2>1. ASSUME NEW s \in Turns, pc'[s] = pc[s], pc[s] \notin Over, held'[s] = held[s],
               PersonOf[who[s]] # PersonOf[x]
        PROVE  TurnKnows(s)'
    <3>1. TurnKnows(s)
      BY DEF Peace, TurnsKnow
    <3>2. QED
      BY <2>1, <3>1, OthersKnowStill
  <2>2. QED
    BY <2>1 DEF TurnsKnow
<1>6. QED
  BY <1>3, <1>4, <1>5 DEF Peace

\* The script, when it is at work, is so on somebody else.
LEMMA ScriptKnowsStill ==
  ASSUME IInv, IInv', ScriptKnows, NEW w, NEW x, Adds(w, x), UNCHANGED script,
         script.step \in {"check", "write"} => PersonOf[script.account] # PersonOf[x]
  PROVE  ScriptKnows'
<1> SUFFICES ASSUME script.step \in {"check", "write"} PROVE ScriptKnows'
  BY DEF ScriptKnows
<1> DEFINE u == script.user
           b == script.account
<1>1. HoldersOf(b)' = HoldersOf(b)
  <2>1. ASSUME NEW c, c = script.account PROVE HoldersOf(c)' = HoldersOf(c)
    BY <2>1, AddsHolder
  <2>2. QED
    BY <2>1 DEF HoldersOf
<1>2. CopyAccounts' = CopyAccounts
  BY DEF CopyAccounts
<1>3. AccountsOf(u)' = AccountsOf(u)
  <2>1. u \in Existing /\ u \in Existing' /\ u \in UserIds
    BY DEF IInv, ScriptWorksOnTheirs, Existing
  <2>2. Of(users'[u], PersonOf[b]) /\ users'[u] \in User
    BY <2>1 DEF IInv, ScriptWorksOnTheirs, TypeOK, Existing
  <2>3. OwnersOfAccounts'
    BY Owners, PTL
  <2>4. PersonOf[x] = Owner(w)'
    <3>1. w \in Existing' /\ x \in AccountsOf(w)'
      BY DEF Adds
    <3>2. QED
      BY <2>3, <3>1 DEF OwnersOfAccounts
  <2>5. Owner(u)' = PersonOf[b]
    <3>1. users'[u].identities \in Seq(Linked) /\ users'[u].identities # <<>>
      BY <2>2 DEF Of, User
    <3>2. 1 \in DOMAIN users'[u].identities
      BY <3>1
    <3>3. PersonOf[users'[u].identities[1].account] = PersonOf[b]
      BY <2>2, <3>2 DEF Of
    <3>4. QED
      BY <3>3 DEF Owner
  <2>6. u # w
    BY <2>4, <2>5 DEF Owner
  <2>7. PICK v : v = script.user
    OBVIOUS
  <2>8. AccountsOf(v)' = AccountsOf(v)
    BY <2>1, <2>6, <2>7 DEF Adds
  <2>9. v = script'.user
    BY <2>7
  <2>10. AccountsOf(u)' = AccountsOf(v)'
    BY ONLY <2>9 DEF AccountsOf
  <2>11. QED
    BY <2>7, <2>8, <2>10
<1>4. QED
  BY <1>1, <1>2, <1>3 DEF ScriptKnows

\* link_identity: the account is nobody's, and the user has none like it.
LEMMA LinkKeepsPeace ==
  ASSUME IInv, IInv', Peace, NEW t \in Turns, LinkWrite(t)
  PROVE  Peace'
<1>1. PICK w \in Existing, x \in Accounts : w = held[t] /\ x = who[t]
  BY Shapes DEF LinkWrite, Goto, IInv, TurnsWorkOnTheirs
<1>2. /\ pc[t] = "union" /\ pc' = [pc EXCEPT ![t] = "reload"]
      /\ UNCHANGED <<who, profiled, held, script, served>>
      /\ users' = [users EXCEPT ![w].identities = Append(@, Known(t).entry)]
  BY <1>1 DEF LinkWrite, Goto
<1> DEFINE s == users[w].identities
<1>3. w \in UserIds /\ users[w] \in User /\ s \in Seq(Linked)
  BY Shapes DEF User
<1>4. /\ users'[w].identities = Append(s, Known(t).entry) /\ users'[w].email = users[w].email
      /\ \A v \in Existing : v # w => users'[v] = users[v]
      /\ Existing' = Existing
  <2>1. users \in [UserIds -> User \cup {Nothing}] /\ users' \in [UserIds -> User \cup {Nothing}]
    BY DEF IInv, TypeOK
  <2>2. users' = [users EXCEPT ![w] = [users[w] EXCEPT !.identities = Append(s, Known(t).entry)]]
    BY <1>2
  <2>3. \A v \in UserIds : v # w => users'[v] = users[v]
    BY <2>1, <2>2
  <2>4. users'[w] = [users[w] EXCEPT !.identities = Append(s, Known(t).entry)]
    BY <1>3, <2>1, <2>2
  <2>5. users'[w].identities = Append(s, Known(t).entry) /\ users'[w].email = users[w].email
    BY <1>3, <2>4 DEF User
  <2>6. w \in Existing'
    BY <1>1, <1>2 DEF IInv, TurnsWorkOnTheirs
  <2>7. QED
    BY <2>3, <2>5, <2>6 DEF Existing
<1>5. AccountsOf(w)' = AccountsOf(w) \cup {x}
  <2>1. Known(t).entry.account = x
    BY <1>1 DEF Known
  <2>2. {Append(s, Known(t).entry)[i].account : i \in DOMAIN Append(s, Known(t).entry)}
           = AccountsOf(w) \cup {x}
    BY <1>3, <2>1, AccountsAppend DEF AccountsOf
  <2>3. QED
    BY <1>4, <2>2 DEF AccountsOf
<1> HIDE DEF s
<1>6. \A v \in Existing : v # w => AccountsOf(v)' = AccountsOf(v)
  BY <1>4 DEF AccountsOf
<1>7. Adds(w, x)
  BY <1>3, <1>4, <1>5, <1>6 DEF Adds
<1>8. /\ HoldersOf(x) = {} /\ TurnKnows(t)
      /\ \A a \in AccountsOf(w) : PlatformOf[a] # PlatformOf[x]
  <2>1. TurnKnows(t)
    BY DEF Peace, TurnsKnow
  <2>2. HoldersOf(who[t]) = {} /\ \A a \in AccountsOf(held[t]) : PlatformOf[a] # PlatformOf[who[t]]
    BY <1>2, <2>1 DEF TurnKnows
  <2>3. QED
    BY <1>1, <2>1, <2>2
<1>9. TurnKnows(t)'
  <2>1. w \in HoldersOf(x)'
    BY <1>7, AddsHolder
  <2>2. HoldersOf(x)' = HoldersOf(who[t])' /\ held'[t] = w
    BY <1>1, <1>2 DEF HoldersOf
  <2>3. pc'[t] = "reload"
    BY <1>2, Shapes
  <2>4. QED
    BY <2>1, <2>2, <2>3 DEF TurnKnows
<1>10. \A r \in Turns : \/ TurnKnows(r)'
                        \/ /\ pc'[r] = pc[r] /\ pc[r] \notin Over /\ held'[r] = held[r]
                           /\ PersonOf[who[r]] # PersonOf[x]
  <2> SUFFICES ASSUME NEW r \in Turns, r # t
               PROVE  \/ TurnKnows(r)'
                      \/ /\ pc'[r] = pc[r] /\ pc[r] \notin Over /\ held'[r] = held[r]
                         /\ PersonOf[who[r]] # PersonOf[x]
    BY <1>9
  <2>1. pc'[r] = pc[r] /\ held'[r] = held[r]
    BY <1>2, Shapes
  <2>2. pc[r] \in Over => TurnKnows(r)'
    BY <2>1 DEF TurnKnows, Over
  <2>3. pc[r] \notin Over => PersonOf[who[r]] # PersonOf[x]
    BY <1>1, <1>2 DEF Peace, Apart, Over
  <2>4. QED
    BY <2>1, <2>2, <2>3
<1>11. OneEmail'
  BY <1>4 DEF Peace, OneEmail
<1>12. OnePerPlatform'
  <2>1. \A u \in Existing : AccountsOf(u)' = AccountsOf(u) \cup (IF u = w THEN {x} ELSE {})
    BY <1>5, <1>6
  <2>2. QED
    BY <1>2, <1>4, <1>8, <2>1 DEF Peace, OnePerPlatform
<1>13. Apart'
  BY <1>2, Shapes, ApartStays DEF Peace, Over
<1>14. ScriptKnows'
  <2>1. script.step \in {"check", "write"} => PersonOf[script.account] # PersonOf[x]
    BY <1>1, <1>2 DEF Peace, Apart, Over
  <2>2. QED
    BY <1>2, <1>7, <2>1, ScriptKnowsStill DEF Peace
<1>15. QED
  BY <1>2, <1>7, <1>8, <1>10, <1>11, <1>12, <1>13, <1>14, WriteStep

\* create_user: neither the account nor the email is anybody's.
LEMMA CreateKeepsPeace ==
  ASSUME IInv, IInv', Peace, NEW t \in Turns, Create(t)
  PROVE  Peace'
<1> DEFINE d == [primary |-> Known(t).entry.name, email |-> Known(t).email,
                 identities |-> <<Known(t).entry>>, created |-> stamp[t]]
<1>1. PICK w \in UserIds \ Existing : /\ Serve(t, "store", w)
                                      /\ users' = [users EXCEPT ![w] = d]
                                      /\ UNCHANGED <<who, profiled, script>>
  BY DEF Create
<1>2. PICK x \in Accounts : x = who[t]
  BY Shapes
<1>3. /\ pc[t] = "store" /\ pc' = [pc EXCEPT ![t] = "served"]
      /\ held' = [held EXCEPT ![t] = w]
      /\ served' = [served EXCEPT ![x] = @ \cup {w}]
  BY <1>1, <1>2 DEF Serve, Goto
<1>4. d \in User /\ d.email = Known(t).email /\ d.identities = <<Known(t).entry>>
  BY NewUserIsTheirs DEF IInv, TypeOK
<1> HIDE DEF d
<1>5. /\ users'[w] = d /\ \A v \in Existing : users'[v] = users[v]
      /\ Existing' = Existing \cup {w}
  <2>1. users \in [UserIds -> User \cup {Nothing}] /\ Nothing \notin User
    BY IdentityAssumption DEF IInv, TypeOK
  <2>2. QED
    BY <1>1, <1>4, <2>1 DEF Existing
<1>6. AccountsOf(w)' = {x}
  <2>1. Known(t).entry.account = x
    BY <1>2 DEF Known
  <2>2. {<<Known(t).entry>>[i].account : i \in DOMAIN <<Known(t).entry>>} = {x}
    BY <2>1
  <2>3. QED
    BY <1>4, <1>5, <2>2 DEF AccountsOf
<1>7. \A v \in Existing : AccountsOf(v)' = AccountsOf(v)
  BY <1>5 DEF AccountsOf
<1>8. Adds(w, x)
  BY <1>1, <1>5, <1>6, <1>7 DEF Adds
<1>9. /\ HoldersOf(x) = {}
      /\ d.email # Nothing => \A u \in Existing : users[u].email # d.email
  <2>1. TurnKnows(t)
    BY DEF Peace, TurnsKnow
  <2>2. HoldersOf(who[t]) = {}
    BY <1>3, <2>1 DEF TurnKnows
  <2>3. QED
    BY <1>2, <1>3, <1>4, <2>1, <2>2 DEF TurnKnows
<1>10. \A r \in Turns : \/ TurnKnows(r)'
                        \/ /\ pc'[r] = pc[r] /\ pc[r] \notin Over /\ held'[r] = held[r]
                           /\ PersonOf[who[r]] # PersonOf[x]
  <2> SUFFICES ASSUME NEW r \in Turns
               PROVE  \/ TurnKnows(r)'
                      \/ /\ pc'[r] = pc[r] /\ pc[r] \notin Over /\ held'[r] = held[r]
                         /\ PersonOf[who[r]] # PersonOf[x]
    OBVIOUS
  <2>1. pc'[r] \in Over => TurnKnows(r)'
    BY DEF TurnKnows, Over
  <2>2. r = t => pc'[r] \in Over
    BY <1>3, Shapes DEF Over
  <2>3. r # t => pc'[r] = pc[r] /\ held'[r] = held[r]
    BY <1>3, Shapes
  <2>4. r # t /\ pc[r] \notin Over => PersonOf[who[r]] # PersonOf[x]
    BY <1>2, <1>3 DEF Peace, Apart, Over
  <2>5. QED
    BY <2>1, <2>2, <2>3, <2>4
<1>11. OneEmail'
  BY <1>4, <1>5, <1>9 DEF Peace, OneEmail
<1>12. OnePerPlatform'
  BY <1>1, <1>5, <1>6, <1>7 DEF Peace, OnePerPlatform
<1>13. Apart'
  BY <1>1, <1>3, Shapes, ApartStays DEF Peace, Over
<1>14. ScriptKnows'
  <2>1. script.step \in {"check", "write"} => PersonOf[script.account] # PersonOf[x]
    BY <1>2, <1>3 DEF Peace, Apart, Over
  <2>2. QED
    BY <1>1, <1>8, <2>1, ScriptKnowsStill DEF Peace
<1>15. \A a \in Accounts : served'[a] \subseteq served[a] \cup (IF a = x THEN {w} ELSE {})
  BY <1>3, Shapes
<1>16. QED
  BY <1>1, <1>8, <1>9, <1>10, <1>11, <1>12, <1>13, <1>14, <1>15, WriteStep

\* update_user: the email is the person's, nobody has it, and nobody is at
\* work on them.
LEMMA EditKeepsPeace ==
  ASSUME IInv, IInv', Peace, EditUser, calm'
  PROVE  Peace'
<1>1. PICK w \in Existing, e \in {Nothing} \cup Emails :
         /\ \E n \in NamesOf(w) : users' = [users EXCEPT ![w].email = e, ![w].primary = n]
         /\ Owner(w) \notin InHand
         /\ \A v \in Existing \ {w} : users[v].email # e
         /\ UNCHANGED <<pc, who, profiled, held, script, served>>
  BY DEF EditUser
<1>2. PICK n \in NamesOf(w) : users' = [users EXCEPT ![w].email = e, ![w].primary = n]
  BY <1>1
<1>3. w \in UserIds /\ users[w] \in User
  BY Shapes
<1>4. /\ Existing' = Existing
      /\ users'[w].email = e /\ users'[w].identities = users[w].identities
      /\ \A v \in Existing \ {w} : users'[v] = users[v]
  <2>1. users \in [UserIds -> User \cup {Nothing}] /\ Nothing \notin User
    BY IdentityAssumption DEF IInv, TypeOK
  <2>2. /\ users'[w] \in User /\ users'[w].email = e
        /\ users'[w].identities = users[w].identities
        /\ users' = [users EXCEPT ![w] = users'[w]]
    BY <1>2, <1>3, <2>1, EditedDocument
  <2>3. \A v \in UserIds : v # w => users'[v] = users[v]
    BY <2>1, <2>2
  <2>4. QED
    BY <1>3, <2>1, <2>2, <2>3 DEF Existing
<1>5. \A v \in Existing : AccountsOf(v)' = AccountsOf(v)
  <2>1. AccountsOf(w)' = AccountsOf(w)
    BY <1>4 DEF AccountsOf
  <2>2. ASSUME NEW v \in Existing, v # w PROVE AccountsOf(v)' = AccountsOf(v)
    BY <1>4, <2>2 DEF AccountsOf
  <2>3. QED
    BY <2>1, <2>2
<1>6. PICK x \in AccountsOf(w) : x \in Accounts /\ PersonOf[x] = Owner(w)
  <2>1. users[w].identities \in Seq(Linked) /\ users[w].identities # <<>>
    BY <1>3 DEF IInv, DocsAreOf, Of, User
  <2>2. 1 \in DOMAIN users[w].identities
    BY <2>1
  <2>3. users[w].identities[1].account \in AccountsOf(w)
    BY <2>2 DEF AccountsOf
  <2>4. QED
    BY <2>3, AccountsAreOwners
<1>7. Adds(w, x)
  BY <1>3, <1>4, <1>5, <1>6 DEF Adds
<1>8. HoldersOf(x) \subseteq {w}
  BY <1>6 DEF Peace, OneHolder, HoldersOf
<1>9. /\ \A r \in Turns : pc[r] \notin Over => PersonOf[who[r]] # PersonOf[x]
      /\ script.step \in {"check", "write"} => PersonOf[script.account] # PersonOf[x]
  BY <1>1, <1>6 DEF InHand
<1>10. \A r \in Turns : \/ TurnKnows(r)'
                        \/ /\ pc'[r] = pc[r] /\ pc[r] \notin Over /\ held'[r] = held[r]
                           /\ PersonOf[who[r]] # PersonOf[x]
  <2>1. \A r \in Turns : pc[r] \in Over => TurnKnows(r)'
    BY <1>1 DEF TurnKnows, Over
  <2>2. QED
    BY <1>1, <1>9, <2>1
<1>11. OneEmail'
  <2>1. \A v \in Existing \ {w} : users'[v].email = users[v].email /\ users'[v].email # e
    BY <1>1, <1>4
  <2>2. QED
    BY <1>4, <2>1 DEF Peace, OneEmail
<1>12. OnePerPlatform'
  BY <1>1, <1>4, <1>5 DEF Peace, OnePerPlatform
<1>13. Apart'
  BY <1>1, ApartStays DEF Peace
<1>14. ScriptKnows'
  BY <1>1, <1>7, <1>9, ScriptKnowsStill DEF Peace
<1>15. QED
  BY <1>1, <1>7, <1>8, <1>10, <1>11, <1>12, <1>13, <1>14, WriteStep

\* The script reads: its copy has the accounts of the document, whichever
\* branch it takes, and nobody else has the one it finds there.
LEMMA ScriptReadKeepsPeace ==
  ASSUME IInv, Peace, ScriptRead, calm'
  PROVE  Peace'
<1>1. PICK w \in Existing, x \in Accounts :
        LET here == {i \in DOMAIN users[w].identities :
                        users[w].identities[i].account = x}
            entry == [account |-> x, name |-> NameOf[x]]
        IN  /\ script.step = "idle"
            /\ script' =
                 [step |-> IF here # {} THEN "write" ELSE "check",
                  user |-> w, account |-> x, name |-> NameOf[x],
                  copy |-> IF here # {}
                           THEN [users[w].identities EXCEPT ![First(here)] = entry]
                           ELSE users[w].identities]
            /\ PersonOf[x] \notin InHand
            /\ UNCHANGED <<users, pc, who, profiled, held, served>>
  BY DEF ScriptRead
<1> DEFINE s == users[w].identities
           e == [account |-> x, name |-> NameOf[x]]
           here == {i \in DOMAIN s : s[i].account = x}
<1>2. /\ script.step = "idle"
      /\ script' = [step |-> IF here # {} THEN "write" ELSE "check",
                    user |-> w, account |-> x, name |-> NameOf[x],
                    copy |-> IF here # {} THEN [s EXCEPT ![First(here)] = e] ELSE s]
      /\ PersonOf[x] \notin InHand
      /\ UNCHANGED <<users, pc, who, profiled, held, served>>
  BY <1>1
<1>3. s \in Seq(Linked)
  BY Shapes DEF User
<1>4. e.account = x
  OBVIOUS
<1>5. here # {} => First(here) \in here
  <2>1. here \in SUBSET Nat
    BY <1>3
  <2>2. QED
    BY <2>1, FirstIndex
<1>6. here # {} => x \in AccountsOf(w)
  BY DEF AccountsOf
<1>7. AccountsOf(w) = {s[i].account : i \in DOMAIN s}
  BY DEF AccountsOf
<1>8. \A j \in here : j \in DOMAIN s /\ s[j].account = x
  OBVIOUS
<1> HIDE DEF s, e, here
<1>9. /\ script'.user = w /\ script'.account = x
      /\ script'.step = IF here # {} THEN "write" ELSE "check"
      /\ script'.copy = IF here # {} THEN [s EXCEPT ![First(here)] = e] ELSE s
  BY <1>2
<1>10. CopyAccounts' = AccountsOf(w)
  <2>1. CopyAccounts' = {script'.copy[i].account : i \in DOMAIN script'.copy}
    BY DEF CopyAccounts
  <2>2. CASE here = {}
    BY <1>7, <1>9, <2>1, <2>2
  <2>3. CASE here # {}
    <3>1. PICK j : j = First(here)
      OBVIOUS
    <3>2. j \in DOMAIN s /\ e.account = s[j].account
      BY <1>4, <1>5, <1>8, <2>3, <3>1
    <3>3. script'.copy = [s EXCEPT ![j] = e]
      BY <1>9, <2>3, <3>1
    <3>4. {script'.copy[i].account : i \in DOMAIN script'.copy} = {s[i].account : i \in DOMAIN s}
      BY <1>3, <3>2, <3>3, AccountsRewritten
    <3>5. QED
      BY <1>7, <2>1, <3>3, <3>4
  <2>4. QED
    BY <2>2, <2>3
<1>11. /\ Existing' = Existing
       /\ \A u : AccountsOf(u)' = AccountsOf(u)
       /\ \A a : HoldersOf(a)' = HoldersOf(a)
  BY <1>2 DEF Existing, AccountsOf, HoldersOf
<1>12. ScriptKnows'
  <2>1. ASSUME here # {} PROVE HoldersOf(x) \subseteq {w} /\ AccountsOf(w) \cup {x} = AccountsOf(w)
    BY <1>6, <2>1 DEF Peace, OneHolder, HoldersOf
  <2>2. AccountsOf(script.user)' = AccountsOf(w)
    <3>1. AccountsOf(w)' = AccountsOf(w)
      BY <1>11
    <3>2. w = script'.user
      BY <1>9
    <3>3. AccountsOf(script.user)' = AccountsOf(w)'
      BY ONLY <3>2 DEF AccountsOf
    <3>4. QED
      BY <3>1, <3>3
  <2>3. HoldersOf(script.account)' = HoldersOf(x)
    <3>1. HoldersOf(x)' = HoldersOf(x)
      BY <1>11
    <3>2. x = script'.account
      BY <1>9
    <3>3. HoldersOf(script.account)' = HoldersOf(x)'
      BY ONLY <3>2 DEF HoldersOf
    <3>4. QED
      BY <3>1, <3>3
  <2>4. QED
    BY <1>9, <1>10, <2>1, <2>2, <2>3 DEF ScriptKnows
<1>13. OneHolder' /\ OneEmail' /\ ServedByHolders'
  BY <1>2, <1>11 DEF Peace, OneHolder, OneEmail, ServedByHolders
<1>14. OnePerPlatform'
  BY <1>2, <1>11 DEF Peace, OnePerPlatform
<1>15. TurnsKnow'
  <2> SUFFICES ASSUME NEW r \in Turns PROVE TurnKnows(r)'
    BY DEF TurnsKnow
  <2>1. TurnKnows(r) /\ Known(r)' = Known(r)
    BY <1>2 DEF Peace, TurnsKnow, Known
  <2>2. QED
    BY <1>2, <1>11, <2>1 DEF TurnKnows
<1>16. Apart'
  <2>1. \A r \in Turns : pc[r] \notin Over => PersonOf[who[r]] # PersonOf[x]
    BY <1>2 DEF InHand
  <2>2. QED
    BY <1>2, <1>9, <2>1 DEF Peace, Apart
<1>17. QED
  BY <1>12, <1>13, <1>14, <1>15, <1>16 DEF Peace

\* The script checks: the account it adds to its copy is nobody else's.
LEMMA ScriptCheckKeepsPeace ==
  ASSUME IInv, Peace, ScriptCheck
  PROVE  Peace'
<1> DEFINE e == [account |-> script.account, name |-> script.name]
<1>1. /\ script.step = "check" /\ UNCHANGED <<users, pc, who, profiled, held, served>>
      /\ \/ script' = [script EXCEPT !.step = "ended"]
         \/ /\ \A u \in Existing : script.account \in AccountsOf(u) => u = script.user
            /\ script' = [script EXCEPT !.step = "write", !.copy = Append(@, e)]
  BY DEF ScriptCheck
<1>2. /\ script.copy \in Seq(Linked) /\ e.account = script.account
      /\ DOMAIN script = {"step", "user", "account", "name", "copy"}
  BY DEF IInv, TypeOK
<1>3. {Append(script.copy, e)[i].account : i \in DOMAIN Append(script.copy, e)}
         = CopyAccounts \cup {script.account}
  BY <1>2, AccountsAppend DEF CopyAccounts
<1> HIDE DEF e
<1>4. /\ script'.user = script.user /\ script'.account = script.account
      /\ \/ script'.step = "ended"
         \/ /\ script'.step = "write" /\ script'.copy = Append(script.copy, e)
            /\ \A u \in Existing : script.account \in AccountsOf(u) => u = script.user
  BY <1>1, <1>2
<1>5. /\ Existing' = Existing
      /\ \A u : AccountsOf(u)' = AccountsOf(u)
      /\ \A a : HoldersOf(a)' = HoldersOf(a)
  BY <1>1 DEF Existing, AccountsOf, HoldersOf
<1>6. ScriptKnows'
  <2> SUFFICES ASSUME script'.step = "write" PROVE ScriptKnows'
    BY <1>4 DEF ScriptKnows
  <2>1. CopyAccounts' = CopyAccounts \cup {script.account}
    BY <1>3, <1>4 DEF CopyAccounts
  <2>2. HoldersOf(script.account) \subseteq {script.user}
    BY <1>4 DEF HoldersOf
  <2>3. CopyAccounts = AccountsOf(script.user)
    BY <1>1 DEF Peace, ScriptKnows
  <2>4. AccountsOf(script.user)' = AccountsOf(script.user)
    <3>1. PICK v : v = script.user
      OBVIOUS
    <3>2. v = script'.user
      BY <1>4, <3>1
    <3>3. AccountsOf(script.user)' = AccountsOf(v)'
      BY ONLY <3>2 DEF AccountsOf
    <3>4. QED
      BY <1>5, <3>1, <3>3
  <2>5. HoldersOf(script.account)' = HoldersOf(script.account)
    <3>1. PICK a : a = script.account
      OBVIOUS
    <3>2. a = script'.account
      BY <1>4, <3>1
    <3>3. HoldersOf(script.account)' = HoldersOf(a)'
      BY ONLY <3>2 DEF HoldersOf
    <3>4. QED
      BY <1>5, <3>1, <3>3
  <2>6. QED
    BY <1>4, <2>1, <2>2, <2>3, <2>4, <2>5 DEF ScriptKnows
<1>7. OneHolder' /\ OneEmail' /\ ServedByHolders'
  BY <1>1, <1>5 DEF Peace, OneHolder, OneEmail, ServedByHolders
<1>8. OnePerPlatform'
  BY <1>1, <1>5 DEF Peace, OnePerPlatform
<1>9. TurnsKnow'
  <2> SUFFICES ASSUME NEW r \in Turns PROVE TurnKnows(r)'
    BY DEF TurnsKnow
  <2>1. TurnKnows(r) /\ Known(r)' = Known(r)
    BY <1>1 DEF Peace, TurnsKnow, Known
  <2>2. QED
    BY <1>1, <1>5, <2>1 DEF TurnKnows
<1>10. Apart'
  BY <1>1, <1>4, ApartStays DEF Peace
<1>11. QED
  BY <1>6, <1>7, <1>8, <1>9, <1>10 DEF Peace

\* The script writes: its copy is what the document has by now, and the
\* account.
LEMMA ScriptWriteKeepsPeace ==
  ASSUME IInv, IInv', Peace, ScriptWrite
  PROVE  Peace'
<1>1. PICK w \in Existing, x \in Accounts : w = script.user /\ x = script.account
  BY DEF ScriptWrite, IInv, TypeOK, ScriptWorksOnTheirs
<1>2. /\ script.step = "write" /\ script' = [script EXCEPT !.step = "ended"]
      /\ users' = [users EXCEPT ![w].identities = script.copy]
      /\ UNCHANGED <<pc, who, profiled, held, served>>
  BY <1>1 DEF ScriptWrite
<1>3. /\ w \in UserIds /\ users[w] \in User /\ script.copy \in Seq(Linked)
      /\ script'.step = "ended" /\ script'.account = x
  BY <1>1, <1>2, Shapes DEF IInv, TypeOK
<1>4. /\ users'[w].identities = script.copy /\ users'[w].email = users[w].email
      /\ \A v \in Existing : v # w => users'[v] = users[v]
      /\ Existing' = Existing
  <2>1. users \in [UserIds -> User \cup {Nothing}] /\ Nothing \notin User
    BY IdentityAssumption DEF IInv, TypeOK
  <2> DEFINE d == [users[w] EXCEPT !.identities = script.copy]
  <2>2. d \in User /\ d.identities = script.copy /\ d.email = users[w].email
    BY <1>3 DEF User
  <2>3. users' = [users EXCEPT ![w] = d]
    BY <1>2
  <2> HIDE DEF d
  <2>4. users'[w] = d /\ \A v \in UserIds : v # w => users'[v] = users[v]
    BY <1>3, <2>1, <2>3
  <2>5. QED
    BY <2>1, <2>2, <2>4 DEF Existing
<1>5. AccountsOf(w)' = AccountsOf(w) \cup {x}
  <2>1. AccountsOf(w)' = CopyAccounts
    BY <1>4 DEF AccountsOf, CopyAccounts
  <2>2. QED
    BY <1>1, <1>2, <2>1 DEF Peace, ScriptKnows
<1>6. \A v \in Existing : v # w => AccountsOf(v)' = AccountsOf(v)
  BY <1>4 DEF AccountsOf
<1>7. Adds(w, x)
  BY <1>3, <1>4, <1>5, <1>6 DEF Adds
<1>8. HoldersOf(x) \subseteq {w}
  BY <1>1, <1>2 DEF Peace, ScriptKnows
<1>9. \A r \in Turns : \/ TurnKnows(r)'
                       \/ /\ pc'[r] = pc[r] /\ pc[r] \notin Over /\ held'[r] = held[r]
                          /\ PersonOf[who[r]] # PersonOf[x]
  <2>1. \A r \in Turns : pc[r] \in Over => TurnKnows(r)'
    BY <1>2 DEF TurnKnows, Over
  <2>2. \A r \in Turns : pc[r] \notin Over => PersonOf[who[r]] # PersonOf[x]
    BY <1>1, <1>2 DEF Peace, Apart
  <2>3. QED
    BY <1>2, <2>1, <2>2
<1>10. OneEmail'
  BY <1>4 DEF Peace, OneEmail
<1>11. OnePerPlatform'
  <2>1. \A u \in Existing : AccountsOf(u)' = AccountsOf(u) \cup (IF u = w THEN {x} ELSE {})
    BY <1>5, <1>6
  <2>2. QED
    BY <1>2, <1>3, <1>4, <2>1 DEF Peace, OnePerPlatform
<1>12. Apart'
  BY <1>2, <1>3, ApartStays DEF Peace
<1>13. ScriptKnows'
  BY <1>3 DEF ScriptKnows
<1>14. QED
  BY <1>2, <1>7, <1>8, <1>9, <1>10, <1>11, <1>12, <1>13, WriteStep

-----------------------------------------------------------------------------
LEMMA CalmStays ==
  ASSUME IInv, IInv', CalmInv, [Next]_vars
  PROVE  CalmInv'
<1> SUFFICES ASSUME calm' PROVE Peace'
  BY DEF CalmInv
<1>1. Peace
  BY CalmIsOver DEF CalmInv
<1>2. CASE UNCHANGED vars
  <2>1. UNCHANGED <<users, pc, who, profiled, held, script, served>>
    BY <1>2 DEF vars
  <2>2. /\ Existing' = Existing /\ CopyAccounts' = CopyAccounts
        /\ \A u : AccountsOf(u)' = AccountsOf(u)
        /\ \A a : HoldersOf(a)' = HoldersOf(a)
        /\ \A t : Known(t)' = Known(t)
    BY <2>1 DEF Existing, CopyAccounts, AccountsOf, HoldersOf, Known
  <2>3. Apart' /\ OneHolder' /\ OneEmail' /\ OnePerPlatform' /\ ScriptKnows' /\ ServedByHolders'
    BY <1>1, <2>1, <2>2 DEF Peace, Apart, OneHolder, OneEmail, OnePerPlatform, ScriptKnows,
                            ServedByHolders
  <2>4. ASSUME NEW t \in Turns PROVE TurnKnows(t)'
    <3>1. TurnKnows(t)
      BY <1>1 DEF Peace, TurnsKnow
    <3>2. QED
      BY <2>1, <2>2, <3>1 DEF TurnKnows
  <2>5. QED
    BY <2>3, <2>4 DEF Peace, TurnsKnow
<1>3. QED
  BY <1>1, <1>2, ReadsKeepPeace, LinkKeepsPeace, CreateKeepsPeace, EditKeepsPeace,
     ScriptReadKeepsPeace, ScriptCheckKeepsPeace, ScriptWriteKeepsPeace DEF Next

LEMMA CalmInvariant == Spec => []CalmInv
<1>1. Init => CalmInv
  BY DEF Init, CalmInv, Peace, Apart, OneHolder, HoldersOf, OneEmail, OnePerPlatform, TurnsKnow,
         TurnKnows, ScriptKnows, ServedByHolders, Existing, Over
<1>2. QED
  BY <1>1, CalmStays, Invariant, PTL DEF Spec

\* As long as nothing fails and nobody is worked on twice at once, accounts
\* and emails have one user, and users one account on a platform, but for
\* the one the operator linked.
THEOREM CalmUsersAreUnified == Spec => []Unified
<1>1. ASSUME IInv, Peace, NEW u \in Existing, NEW v \in Existing, u # v
      PROVE  /\ AccountsOf(u) \cap AccountsOf(v) = {}
             /\ users[u].email = users[v].email => users[u].email = Nothing
  <2>1. ASSUME NEW a \in AccountsOf(u), a \in AccountsOf(v) PROVE FALSE
    <3>1. a \in Accounts /\ u \in HoldersOf(a) /\ v \in HoldersOf(a)
      BY <1>1, <2>1, AccountsAreOwners DEF HoldersOf
    <3>2. QED
      BY <1>1, <3>1 DEF Peace, OneHolder
  <2>2. QED
    BY <1>1, <2>1 DEF Peace, OneEmail
<1>2. Peace => \A u \in Existing : \A a, b \in AccountsOf(u) :
                 PlatformOf[a] = PlatformOf[b] => a = b \/ script.account \in {a, b}
  BY DEF Peace, OnePerPlatform
<1>3. IInv /\ CalmInv => Unified
  BY <1>1, <1>2 DEF CalmInv, Unified
<1>4. QED
  BY <1>3, Invariant, CalmInvariant, PTL

\* ... and then all turns of an account are served as one user.
THEOREM CalmTurnsMeetOneUser == Spec => []SameUserEveryTime
<1>1. CalmInv => SameUserEveryTime
  <2> SUFFICES ASSUME CalmInv, calm, NEW a \in Accounts
               PROVE  Cardinality(served[a]) <= 1
    BY DEF SameUserEveryTime
  <2>1. \A u, v \in served[a] : u = v
    BY DEF CalmInv, Peace, OneHolder, ServedByHolders
  <2>2. CASE served[a] = {}
    BY <2>2, FS_EmptySet
  <2>3. CASE served[a] # {}
    <3>1. PICK u : served[a] = {u}
      BY <2>1, <2>3
    <3>2. Cardinality({u}) = 1
      BY FS_Singleton
    <3>3. Cardinality(served[a]) = 1
      BY <3>1, <3>2
    <3>4. QED
      BY <3>3
  <2>4. QED
    BY <2>2, <2>3
<1>2. QED
  BY <1>1, CalmInvariant, PTL
=============================================================================
