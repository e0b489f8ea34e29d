--------------------------- MODULE JobStoreProofs ---------------------------
(***************************************************************************)
(* What the upsert of scheduled jobs guarantees, for any number of calls,  *)
(* agents, users and names, whatever fails: two jobs of one identity come  *)
(* from overlapping creates or from a rename, and nothing deleted returns. *)
(***************************************************************************)
EXTENDS JobStore, TLAPS

\* A key is an identity, or none.
LEMMA KeyType ==
  ASSUME NEW a \in Agents, NEW u \in Users, NEW n \in Spellings \cup {Nothing}
  PROVE  /\ IdentityKey(a, u, n) \in (Agents \X Users \X Names) \cup {Nothing}
         /\ n # Nothing => IdentityKey(a, u, n) = <<a, u, NormalName[n]>>
BY StoreAssumption DEF IdentityKey, Normalize

\* An update leaves a document, of the same agent and user.
LEMMA UpdatedType ==
  ASSUME NEW doc \in Doc, NEW r \in Request, NEW k \in BOOLEAN
  PROVE  /\ Updated(doc, r, k) \in Doc
         /\ Updated(doc, r, k).agent = doc.agent
         /\ Updated(doc, r, k).user = doc.user
<1> DEFINE value(f) == IF f \in Written(r) THEN NewValue(r, f) ELSE doc[f]
<1>1. /\ value("name") \in Spellings \cup {Nothing}
      /\ value("prompt") \in Prompts \cup {Nothing}
      /\ value("enabled") \in BOOLEAN \cup {Nothing}
  BY DEF NewValue, Request, Doc
<1>2. IdentityKey(doc.agent, doc.user, value("name"))
        \in (Agents \X Users \X Names) \cup {Nothing}
  <2>1. doc.agent \in Agents /\ doc.user \in Users
    BY DEF Doc
  <2>2. QED
    BY <1>1, <2>1, KeyType
<1> HIDE DEF value
<1>3. Updated(doc, r, k) =
        [doc EXCEPT !.name = value("name"), !.prompt = value("prompt"),
                    !.enabled = value("enabled"),
                    !.key = IF "name" \in Written(r) /\ k
                            THEN IdentityKey(doc.agent, doc.user, value("name"))
                            ELSE doc.key]
  BY DEF Updated, value
<1>4. QED
  BY <1>1, <1>2, <1>3 DEF Doc

\* Every step keeps the types.
LEMMA TypeStep == TypeOK /\ [Next]_vars => TypeOK'
<1> SUFFICES ASSUME TypeOK, [Next]_vars PROVE TypeOK'
  OBVIOUS
<1> USE DEF TypeOK, Ended
<1>1. ASSUME NEW c \in Calls, Begin(c) PROVE TypeOK'
  <2>1. PICK r \in Request :
           /\ request' = [request EXCEPT ![c] = r]
           /\ \/ pc' = [pc EXCEPT ![c] = "lookup"] /\ UNCHANGED target
              \/ /\ \E d \in Calls : target' = [target EXCEPT ![c] = d]
                 /\ \/ pc' = [pc EXCEPT ![c] = "load"]
                    \/ pc' = [pc EXCEPT ![c] = "get"]
    BY <1>1 DEF Begin
  <2>2. with' \in [Calls -> SUBSET Calls] /\ UNCHANGED <<docs, known, renamed>>
    BY <1>1 DEF Begin, InFlight
  <2>3. \A e \in Calls : pc'[e] # "idle" => request'[e] \in Request
    BY <2>1
  <2>4. /\ target' \in [Calls -> Calls \cup {Nothing}]
        /\ \A e \in Calls :
              pc'[e] \in {"load", "get", "current", "write", "delete"}
                 => target'[e] \in Calls
    BY <2>1
  <2>5. /\ request' \in [Calls -> Request \cup {Nothing}]
        /\ pc' \in [Calls -> Ended \cup {"idle", "lookup", "guard", "insert",
                                       "load", "get", "current", "write", "delete"}]
    BY <2>1
  <2>6. QED
    BY <2>2, <2>3, <2>4, <2>5
<1>2. ASSUME NEW c \in Calls, LookUp(c) PROVE TypeOK'
  <2>1. \/ pc' = [pc EXCEPT ![c] = "failed"] /\ UNCHANGED target
        \/ pc' = [pc EXCEPT ![c] = "guard"] /\ UNCHANGED target
        \/ /\ \E d \in Calls : target' = [target EXCEPT ![c] = d]
           /\ pc' = [pc EXCEPT ![c] = "current"]
    BY <1>2 DEF LookUp, Stored
  <2>2. pc[c] = "lookup" /\ UNCHANGED <<docs, request, known, with, renamed>>
    BY <1>2 DEF LookUp
  <2>3. QED
    BY <2>1, <2>2
<1>3. ASSUME NEW c \in Calls, Guard(c) \/ Load(c) \/ Raise(c) PROVE TypeOK'
  BY <1>3 DEF Guard, Load, Raise, InFlight
<1>4. ASSUME NEW c \in Calls, Get(c) PROVE TypeOK'
  BY <1>4 DEF Get
<1>5. ASSUME NEW c \in Calls, Insert(c) PROVE TypeOK'
  <2>1. request[c] \in Request
    BY <1>5 DEF Insert
  <2>2. docs' \in [Calls -> Doc \cup {Nothing}]
    BY <1>5, <2>1, KeyType DEF Insert, Request, Doc
  <2>3. QED
    BY <1>5, <2>2 DEF Insert
<1>6. ASSUME NEW c \in Calls, ReadCurrent(c) PROVE TypeOK'
  <2>1. known' \in [Calls -> BOOLEAN]
    BY <1>6, StoreAssumption DEF ReadCurrent, Readable
  <2>2. QED
    BY <1>6, <2>1 DEF ReadCurrent
<1>7. ASSUME NEW c \in Calls, Write(c) PROVE TypeOK'
  <2>1. request[c] \in Request /\ target[c] \in Calls /\ known[c] \in BOOLEAN
    BY <1>7 DEF Write
  <2>2. docs' \in [Calls -> Doc \cup {Nothing}]
    <3>1. CASE target[c] \notin Stored
      BY <1>7, <3>1 DEF Write
    <3>2. CASE target[c] \in Stored
      <4>1. docs[target[c]] \in Doc
        BY <3>2 DEF Stored
      <4>2. Updated(docs[target[c]], request[c], known[c]) \in Doc
        BY <2>1, <4>1, UpdatedType
      <4>3. docs' = [docs EXCEPT ![target[c]] =
                        Updated(docs[target[c]], request[c], known[c])]
        BY <1>7, <3>2 DEF Write
      <4>4. QED
        BY <4>2, <4>3
    <3>3. QED
      BY <3>1, <3>2
  <2>3. renamed' \in SUBSET Calls
    BY <1>7, <2>1 DEF Write
  <2>4. QED
    BY <1>7, <2>2, <2>3 DEF Write
<1>8. ASSUME NEW c \in Calls, Delete(c) PROVE TypeOK'
  BY <1>8 DEF Delete
<1>9. ASSUME UNCHANGED vars PROVE TypeOK'
  BY <1>9 DEF vars
<1>10. QED
  BY <1>1, <1>2, <1>3, <1>4, <1>5, <1>6, <1>7, <1>8, <1>9 DEF Next

\* The name and the key after an update.
LEMMA UpdatedName ==
  ASSUME NEW doc \in Doc, NEW r \in Request, NEW k \in BOOLEAN
  PROVE  /\ "name" \notin Written(r) =>
               /\ Updated(doc, r, k).name = doc.name
               /\ Updated(doc, r, k).key = doc.key
         /\ r.kind = "create" =>
               /\ "name" \in Written(r)
               /\ Updated(doc, r, k).name = r.name
               /\ Updated(doc, r, k).key \in
                     {doc.key, IdentityKey(doc.agent, doc.user, r.name)}
<1>1. r.kind = "create" => "name" \in Written(r) /\ NewValue(r, "name") = r.name
  BY DEF Written, NewValue, Fields
<1>2. QED
  BY <1>1 DEF Updated, Doc

\* Requests, documents and the places of the calls keep their types.
THEOREM TypeCorrect == Spec => []TypeOK
<1>1. Init => TypeOK
  BY DEF Init, TypeOK, Ended
<1>2. TypeOK /\ [Next]_vars => TypeOK'
  BY TypeStep
<1>3. QED
  BY <1>1, <1>2, PTL DEF Spec

-----------------------------------------------------------------------------
(* The inductive invariant of the identities. *)

\* Two calls create one and the same job: agent, user and normalized name.
SameJob(c, e) ==
  /\ request[c].agent = request[e].agent
  /\ request[c].user = request[e].user
  /\ NormalName[request[c].name] = NormalName[request[e].name]

\* What overlaps now has overlapped.
ConcurrentOverlap == \A c, e \in InFlight : c # e => Overlapped(c, e)

\* Only creates insert, and they name their jobs.
CreatesAreNamed ==
  \A c \in Calls :
     /\ pc[c] \in {"lookup", "guard", "insert"} \/ c \in Stored
           => request[c].kind = "create" /\ request[c].name # Nothing
     /\ pc[c] \in {"load", "get"} => request[c].kind # "create"

\* A document is there only when the call that inserted it is done.
InsertedByDone == \A c \in Stored : pc[c] = "done"

\* Until an update writes its name, a document has the identity it was
\* created for, and the key of that identity.
OwnIdentity ==
  \A d \in Stored :
     /\ docs[d].agent = request[d].agent
     /\ docs[d].user = request[d].user
     /\ d \notin renamed =>
           /\ docs[d].name # Nothing
           /\ NormalName[docs[d].name] = NormalName[request[d].name]
           /\ docs[d].key = <<request[d].agent, request[d].user,
                             NormalName[request[d].name]>>

\* An upsert works on a job of its own identity, unless that was renamed.
UpsertsOwnJob ==
  \A c \in Calls :
     pc[c] \in {"current", "write"} /\ request[c].kind = "create"
        => /\ request[c].name # Nothing
           /\ pc[target[c]] = "done"
           /\ target[c] \in Stored \ renamed => SameJob(c, target[c])

\* Who is about to insert found no such job: what there is came meanwhile.
InsertersFoundNone ==
  \A c \in Calls, d \in Stored \ renamed :
     pc[c] = "insert" /\ SameJob(c, d) => Overlapped(c, d)

\* The same for documents, by what they were created for.
SameJobOverlapped ==
  \A d, e \in Stored \ renamed : d # e /\ SameJob(d, e) => Overlapped(d, e)

IInv ==
  /\ TypeOK
  /\ ConcurrentOverlap
  /\ CreatesAreNamed
  /\ InsertedByDone
  /\ OwnIdentity
  /\ UpsertsOwnJob
  /\ InsertersFoundNone
  /\ SameJobOverlapped

\* Every step but the first of a call leaves its request alone, and most
\* leave the documents: what is left to prove is where the call goes.
LEMMA QuietStep ==
  ASSUME IInv, TypeOK', NEW c \in Calls, pc[c] # "idle", pc[c] # "done",
         NEW to, to # "idle", to # "insert",
         to \in {"lookup", "guard"} => request[c].kind = "create" /\ request[c].name # Nothing,
         to \in {"load", "get"} => request[c].kind # "create",
         to \in {"current", "write"} =>
            pc[c] \in {"get", "current"} /\ (pc[c] = "get" => request[c].kind # "create"),
         pc' = [pc EXCEPT ![c] = to],
         UNCHANGED <<docs, request, target, with, renamed>>,
         to \in Ended \/ c \in InFlight
  PROVE  IInv'
<1>1. ConcurrentOverlap'
  BY DEF IInv, TypeOK, ConcurrentOverlap, InFlight, Overlapped, Ended
<1>2. CreatesAreNamed'
  BY DEF IInv, TypeOK, CreatesAreNamed, Stored
<1>3. InsertedByDone'
  BY DEF IInv, TypeOK, InsertedByDone, Stored
<1>4. OwnIdentity'
  BY DEF IInv, OwnIdentity, Stored
<1>5. UpsertsOwnJob'
  BY DEF IInv, TypeOK, UpsertsOwnJob, SameJob, Stored
<1>6. InsertersFoundNone'
  BY DEF IInv, TypeOK, InsertersFoundNone, SameJob, Stored, Overlapped
<1>7. SameJobOverlapped'
  BY DEF IInv, SameJobOverlapped, SameJob, Stored, Overlapped
<1>8. QED
  BY <1>1, <1>2, <1>3, <1>4, <1>5, <1>6, <1>7 DEF IInv

\* A call begins: it overlaps whatever is in flight, and has no document.
LEMMA BeginStep == ASSUME IInv, TypeOK', NEW c \in Calls, Begin(c) PROVE IInv'
<1> USE DEF IInv
<1>1. /\ pc[c] = "idle" /\ c \notin Stored
      /\ UNCHANGED <<docs, renamed>>
      /\ with' = [with EXCEPT ![c] = InFlight]
      /\ \A e \in Calls \ {c} : /\ pc'[e] = pc[e] /\ request'[e] = request[e]
                                /\ target'[e] = target[e]
  BY DEF Begin, InsertedByDone, TypeOK
<1>2. /\ pc'[c] \in {"lookup", "load", "get"}
      /\ pc'[c] = "lookup" => request'[c].kind = "create" /\ request'[c].name # Nothing
      /\ pc'[c] # "lookup" => request'[c].kind # "create"
  BY DEF Begin, TypeOK, Given, Fields
<1>3. \A d, e \in Calls \ {c} : Overlapped(d, e)' = Overlapped(d, e)
  BY <1>1 DEF Overlapped, TypeOK
<1>4. \A d, e \in Calls \ {c} : SameJob(d, e)' = SameJob(d, e)
  BY <1>1 DEF SameJob
<1>5. Stored' = Stored
  BY <1>1 DEF Stored
<1>6. ConcurrentOverlap'
  BY <1>1, <1>2, <1>3 DEF ConcurrentOverlap, InFlight, Overlapped, Ended, TypeOK
<1>7. CreatesAreNamed' /\ InsertedByDone'
  BY <1>1, <1>2, <1>5 DEF CreatesAreNamed, InsertedByDone, Stored
<1>8. OwnIdentity'
  BY <1>1, <1>5 DEF OwnIdentity, Stored
<1>9. UpsertsOwnJob'
  BY <1>1, <1>2, <1>4, <1>5 DEF UpsertsOwnJob, TypeOK, Stored
<1>10. InsertersFoundNone' /\ SameJobOverlapped'
  BY <1>1, <1>2, <1>3, <1>4, <1>5 DEF InsertersFoundNone, SameJobOverlapped, Stored
<1>11. QED
  BY <1>6, <1>7, <1>8, <1>9, <1>10

\* The upsert finds a job: by its name, which is its own unless renamed.
LEMMA FoundStep ==
  ASSUME IInv, TypeOK', NEW c \in Calls, NEW d \in Stored, pc[c] = "lookup",
         docs[d].agent = request[c].agent, docs[d].user = request[c].user,
         Normalize(docs[d].name) = Normalize(request[c].name),
         pc' = [pc EXCEPT ![c] = "current"], target' = [target EXCEPT ![c] = d],
         UNCHANGED <<docs, request, with, renamed>>
  PROVE  IInv'
<1> USE DEF IInv
<1>1. Stored' = Stored /\ d \in Calls
  BY DEF Stored
<1>2. request[c].kind = "create" /\ request[c].name # Nothing
  BY DEF CreatesAreNamed
<1>3. d \notin renamed => SameJob(c, d)
  BY <1>2 DEF OwnIdentity, SameJob, Normalize
<1>4. \A x, y \in Calls : SameJob(x, y)' = SameJob(x, y) /\ Overlapped(x, y)' = Overlapped(x, y)
  BY DEF SameJob, Overlapped
<1>5. UpsertsOwnJob'
  BY <1>1, <1>2, <1>3, <1>4 DEF UpsertsOwnJob, InsertedByDone, TypeOK, Stored
<1>6. ConcurrentOverlap' /\ InsertedByDone' /\ CreatesAreNamed'
  BY <1>1, <1>4 DEF ConcurrentOverlap, InFlight, InsertedByDone, CreatesAreNamed, TypeOK,
                    Ended, Stored
<1>7. OwnIdentity' /\ InsertersFoundNone' /\ SameJobOverlapped'
  BY <1>1, <1>4 DEF OwnIdentity, InsertersFoundNone, SameJobOverlapped, TypeOK, Stored
<1>8. QED
  BY <1>5, <1>6, <1>7

\* The guard passes: no document has the key, so none has the identity.
LEMMA GuardStep ==
  ASSUME IInv, TypeOK', NEW c \in Calls, Guard(c), pc'[c] = "insert" PROVE IInv'
<1> USE DEF IInv
<1>1. /\ pc[c] = "guard" /\ pc' = [pc EXCEPT ![c] = "insert"] /\ Stored' = Stored
      /\ UNCHANGED <<docs, request, target, with, renamed>>
  BY DEF Guard, TypeOK, Stored
<1>2. /\ request[c] \in Request /\ request[c].kind = "create" /\ request[c].name # Nothing
  BY <1>1 DEF CreatesAreNamed, TypeOK
<1>3. IdentityKey(request[c].agent, request[c].user, request[c].name)
        = <<request[c].agent, request[c].user, NormalName[request[c].name]>>
  BY <1>2, KeyType DEF Request
<1>4. \A d \in Stored : docs[d].key # <<request[c].agent, request[c].user,
                                        NormalName[request[c].name]>>
  BY <1>1, <1>3 DEF Guard, TypeOK
<1>5. \A d \in Stored \ renamed : ~SameJob(c, d)
  BY <1>4 DEF SameJob, OwnIdentity
<1>6. \A x, y \in Calls : SameJob(x, y)' = SameJob(x, y) /\ Overlapped(x, y)' = Overlapped(x, y)
  BY <1>1 DEF SameJob, Overlapped
<1>7. InsertersFoundNone' /\ SameJobOverlapped'
  BY <1>1, <1>5, <1>6 DEF InsertersFoundNone, SameJobOverlapped, TypeOK, Stored
<1>8. ConcurrentOverlap' /\ InsertedByDone' /\ CreatesAreNamed'
  BY <1>1, <1>2, <1>6 DEF ConcurrentOverlap, InFlight, InsertedByDone, CreatesAreNamed,
                          TypeOK, Ended, Stored
<1>9. OwnIdentity' /\ UpsertsOwnJob'
  BY <1>1, <1>6 DEF OwnIdentity, UpsertsOwnJob, TypeOK, Stored
<1>10. QED
  BY <1>7, <1>8, <1>9

\* The insert: who is about to insert the same job is in flight beside it.
LEMMA InsertStep == ASSUME IInv, TypeOK', NEW c \in Calls, Insert(c) PROVE IInv'
<1> USE DEF IInv
<1>1. /\ pc[c] = "insert" /\ pc' = [pc EXCEPT ![c] = "done"]
      /\ UNCHANGED <<request, target, with, renamed>>
      /\ \A e \in Calls \ {c} : docs'[e] = docs[e]
      /\ docs'[c] = [agent |-> request[c].agent, user |-> request[c].user,
                     name |-> request[c].name, prompt |-> request[c].prompt,
                     enabled |-> request[c].enabled,
                     key |-> IdentityKey(request[c].agent, request[c].user, request[c].name)]
  BY DEF Insert, TypeOK
<1>2. request[c] \in Request /\ request[c].kind = "create" /\ request[c].name # Nothing
  BY <1>1 DEF CreatesAreNamed, TypeOK
<1>3. IdentityKey(request[c].agent, request[c].user, request[c].name)
        = <<request[c].agent, request[c].user, NormalName[request[c].name]>>
  BY <1>2, KeyType DEF Request
<1>4. \A x, y \in Calls : SameJob(x, y)' = SameJob(x, y) /\ Overlapped(x, y)' = Overlapped(x, y)
  BY <1>1 DEF SameJob, Overlapped
<1>5. Stored' \subseteq Stored \cup {c} /\ Stored \subseteq Calls
  BY <1>1 DEF Stored
<1>6. OwnIdentity'
  BY <1>1, <1>2, <1>3, <1>5 DEF OwnIdentity
<1>7. \A e \in Calls : pc'[e] = "insert" => e # c /\ Overlapped(e, c)
  BY <1>1 DEF ConcurrentOverlap, InFlight, Overlapped, Ended, TypeOK
<1>8. InsertersFoundNone'
  BY <1>1, <1>4, <1>5, <1>7 DEF InsertersFoundNone, TypeOK
<1>9. \A e \in Stored \ renamed : SameJob(c, e) \/ SameJob(e, c) => Overlapped(c, e)
  BY <1>1 DEF InsertersFoundNone, SameJob
<1>10. SameJobOverlapped'
  BY <1>1, <1>4, <1>5, <1>9 DEF SameJobOverlapped, Overlapped
<1>11. ConcurrentOverlap' /\ InsertedByDone' /\ CreatesAreNamed'
  BY <1>1, <1>2, <1>4, <1>5 DEF ConcurrentOverlap, InFlight, InsertedByDone,
                                CreatesAreNamed, TypeOK, Ended
<1>12. UpsertsOwnJob'
  BY <1>1, <1>4, <1>5 DEF UpsertsOwnJob, TypeOK
<1>13. QED
  BY <1>6, <1>8, <1>10, <1>11, <1>12

\* An update: an upsert writes the name its job has; others rename it.
LEMMA WriteStep == ASSUME IInv, TypeOK', NEW c \in Calls, Write(c) PROVE IInv'
<1> USE DEF IInv
<1> DEFINE d == target[c]
<1>1. /\ pc[c] = "write" /\ d \in Calls /\ request[c] \in Request
      /\ UNCHANGED <<request, target, with>>
  BY DEF Write, TypeOK
<1>2. CASE d \notin Stored
  <2>1. pc' = [pc EXCEPT ![c] = "failed"] /\ UNCHANGED <<docs, request, target, with, renamed>>
    BY <1>1, <1>2 DEF Write
  <2>2. QED
    BY <1>1, <2>1, QuietStep DEF Ended
<1>3. CASE d \in Stored
  <2> DEFINE new == Updated(docs[d], request[c], known[c])
  <2>1. /\ pc' = [pc EXCEPT ![c] = "done"] /\ docs' = [docs EXCEPT ![d] = new]
        /\ renamed' = IF request[c].kind # "create" /\ "name" \in Written(request[c])
                      THEN renamed \cup {d} ELSE renamed
    BY <1>1, <1>3 DEF Write
  <2>2. docs[d] \in Doc /\ known[c] \in BOOLEAN
    BY <1>1, <1>3 DEF TypeOK, Stored
  <2>3. new.agent = docs[d].agent /\ new.user = docs[d].user
    BY <1>1, <2>2, UpdatedType
  <2>4. /\ Stored' \subseteq Stored /\ renamed \subseteq renamed'
        /\ \A e \in Calls \ {d} : docs'[e] = docs[e]
        /\ docs'[d] = new
    BY <1>1, <1>3, <2>1 DEF Stored, TypeOK
  <2>5. \A x, y \in Calls : SameJob(x, y)' = SameJob(x, y) /\ Overlapped(x, y)' = Overlapped(x, y)
    BY <1>1 DEF SameJob, Overlapped
  <2>6. d \notin renamed' =>
          /\ new.name # Nothing
          /\ NormalName[new.name] = NormalName[request[d].name]
          /\ new.key = <<request[d].agent, request[d].user, NormalName[request[d].name]>>
    <3> SUFFICES ASSUME d \notin renamed'
                 PROVE  /\ new.name # Nothing
                        /\ NormalName[new.name] = NormalName[request[d].name]
                        /\ new.key = <<request[d].agent, request[d].user,
                                      NormalName[request[d].name]>>
      OBVIOUS
    <3>1. d \notin renamed
      BY <2>4
    <3>2. CASE request[c].kind = "create"
      <4>1. request[c].name # Nothing /\ SameJob(c, d)
        BY <1>1, <1>3, <3>1, <3>2 DEF UpsertsOwnJob
      <4>2. /\ new.name = request[c].name
            /\ new.key \in {docs[d].key,
                           IdentityKey(docs[d].agent, docs[d].user, request[c].name)}
        BY <1>1, <2>2, <3>2, UpdatedName
      <4>3. IdentityKey(docs[d].agent, docs[d].user, request[c].name)
              = <<docs[d].agent, docs[d].user, NormalName[request[c].name]>>
        <5>1. /\ docs[d].agent \in Agents /\ docs[d].user \in Users
              /\ request[c].name \in Spellings \cup {Nothing}
          BY <1>1, <2>2 DEF Doc, Request
        <5>2. QED
          BY <4>1, <5>1, KeyType
      <4>4. QED
        BY <1>3, <3>1, <4>1, <4>2, <4>3 DEF OwnIdentity, SameJob
    <3>3. CASE request[c].kind # "create"
      <4>1. "name" \notin Written(request[c])
        BY <2>1, <3>3
      <4>2. new.name = docs[d].name /\ new.key = docs[d].key
        BY <1>1, <2>2, <4>1, UpdatedName
      <4>3. QED
        BY <1>3, <3>1, <4>2 DEF OwnIdentity
    <3>4. QED
      BY <3>2, <3>3
  <2> HIDE DEF new
  <2>7. OwnIdentity'
    BY <1>1, <1>3, <2>3, <2>4, <2>6 DEF OwnIdentity, Stored
  <2>8. ConcurrentOverlap' /\ InsertedByDone' /\ CreatesAreNamed'
    BY <1>1, <2>1, <2>4, <2>5 DEF ConcurrentOverlap, InFlight, InsertedByDone,
                                  CreatesAreNamed, TypeOK, Ended, Stored
  <2>9. UpsertsOwnJob'
    BY <1>1, <2>1, <2>4, <2>5 DEF UpsertsOwnJob, TypeOK
  <2>10. InsertersFoundNone' /\ SameJobOverlapped'
    BY <1>1, <2>1, <2>4, <2>5 DEF InsertersFoundNone, SameJobOverlapped, TypeOK, Stored
  <2>11. QED
    BY <2>7, <2>8, <2>9, <2>10
<1>4. QED
  BY <1>2, <1>3

\* A deletion only takes documents away.
LEMMA DeleteStep == ASSUME IInv, TypeOK', NEW c \in Calls, Delete(c) PROVE IInv'
<1> USE DEF IInv
<1>1. /\ pc[c] = "delete" /\ pc' = [pc EXCEPT ![c] = "done"]
      /\ UNCHANGED <<request, target, with, renamed>>
      /\ Stored' \subseteq Stored /\ \A e \in Stored' : docs'[e] = docs[e]
  BY DEF Delete, TypeOK, Stored
<1>2. \A x, y \in Calls : SameJob(x, y)' = SameJob(x, y) /\ Overlapped(x, y)' = Overlapped(x, y)
  BY <1>1 DEF SameJob, Overlapped
<1>3. ConcurrentOverlap' /\ InsertedByDone' /\ CreatesAreNamed'
  BY <1>1, <1>2 DEF ConcurrentOverlap, InFlight, InsertedByDone, CreatesAreNamed, TypeOK,
                    Ended, Stored
<1>4. OwnIdentity' /\ UpsertsOwnJob'
  BY <1>1, <1>2 DEF OwnIdentity, UpsertsOwnJob, TypeOK, Stored
<1>5. InsertersFoundNone' /\ SameJobOverlapped'
  BY <1>1, <1>2 DEF InsertersFoundNone, SameJobOverlapped, TypeOK, Stored
<1>6. QED
  BY <1>3, <1>4, <1>5

-----------------------------------------------------------------------------
LEMMA IdentitiesHold == Spec => []IInv
<1>1. Init => IInv
  <2>1. Init => TypeOK
    BY DEF Init, TypeOK, Ended
  <2>2. QED
    BY <2>1 DEF Init, IInv, ConcurrentOverlap, CreatesAreNamed, InsertedByDone, OwnIdentity,
                UpsertsOwnJob, InsertersFoundNone, SameJobOverlapped, InFlight, Stored
<1>2. IInv /\ [Next]_vars => IInv'
  <2> SUFFICES ASSUME IInv, [Next]_vars PROVE IInv'
    OBVIOUS
  <2>1. TypeOK /\ TypeOK'
    BY TypeStep DEF IInv
  <2>2. ASSUME NEW c \in Calls, LookUp(c) PROVE IInv'
    <3>1. pc[c] = "lookup" /\ UNCHANGED <<docs, request, known, with, renamed>>
      BY <2>2 DEF LookUp
    <3>2. CASE \E d \in Stored :
                  /\ docs[d].agent = request[c].agent /\ docs[d].user = request[c].user
                  /\ Normalize(docs[d].name) = Normalize(request[c].name)
                  /\ target' = [target EXCEPT ![c] = d]
                  /\ pc' = [pc EXCEPT ![c] = "current"]
      BY <2>1, <3>1, <3>2, FoundStep
    <3>3. CASE /\ UNCHANGED target
               /\ pc' = [pc EXCEPT ![c] = "failed"] \/ pc' = [pc EXCEPT ![c] = "guard"]
      BY <2>1, <3>1, <3>3, QuietStep DEF IInv, CreatesAreNamed, InFlight, Ended
    <3>4. QED
      BY <2>2, <3>2, <3>3 DEF LookUp
  <2>3. ASSUME NEW c \in Calls, Guard(c) PROVE IInv'
    <3>1. CASE pc'[c] = "insert"
      BY <2>1, <2>3, <3>1, GuardStep
    <3>2. CASE pc'[c] # "insert"
      <4>1. pc' = [pc EXCEPT ![c] = "failed"]
        BY <2>1, <2>3, <3>2 DEF Guard, TypeOK
      <4>2. QED
        BY <2>1, <2>3, <4>1, QuietStep DEF Guard, Ended
    <3>3. QED
      BY <3>1, <3>2
  <2>4. ASSUME NEW c \in Calls, Load(c) \/ Get(c) \/ ReadCurrent(c) \/ Raise(c) PROVE IInv'
    <3>1. CASE Load(c)
      <4>1. PICK to \in {"get", "missing"} : pc' = [pc EXCEPT ![c] = to]
        BY <3>1 DEF Load
      <4>2. pc[c] = "load" /\ UNCHANGED <<docs, request, target, with, renamed>>
        BY <3>1 DEF Load
      <4>3. request[c].kind # "create" /\ c \in InFlight
        BY <4>2 DEF IInv, CreatesAreNamed, InFlight, Ended
      <4>4. QED
        BY <2>1, <4>1, <4>2, <4>3, QuietStep
    <3>2. CASE Get(c)
      <4>1. PICK to \in {"delete", "failed", "current", "write", "missing"} :
               pc' = [pc EXCEPT ![c] = to]
        BY <3>2 DEF Get
      <4>2. pc[c] = "get" /\ UNCHANGED <<docs, request, target, with, renamed>>
        BY <3>2 DEF Get
      <4>3. request[c].kind # "create" /\ c \in InFlight
        BY <4>2 DEF IInv, CreatesAreNamed, InFlight, Ended
      <4>4. QED
        BY <2>1, <4>1, <4>2, <4>3, QuietStep
    <3>3. CASE ReadCurrent(c)
      BY <2>1, <3>3, QuietStep DEF ReadCurrent, InFlight, Ended
    <3>4. CASE Raise(c)
      BY <2>1, <3>4, QuietStep DEF Raise, InFlight, Ended
    <3>5. QED
      BY <2>4, <3>1, <3>2, <3>3, <3>4
  <2>5. CASE UNCHANGED vars
    <3>1. \A x, y \in Calls : SameJob(x, y)' = SameJob(x, y) /\ Overlapped(x, y)' = Overlapped(x, y)
      BY <2>5 DEF vars, SameJob, Overlapped
    <3>2. Stored' = Stored /\ InFlight' = InFlight
      BY <2>5 DEF vars, Stored, InFlight
    <3>3. ConcurrentOverlap' /\ CreatesAreNamed' /\ InsertedByDone' /\ OwnIdentity'
      BY <2>5, <3>1, <3>2 DEF vars, IInv, ConcurrentOverlap, CreatesAreNamed, InsertedByDone,
                              OwnIdentity, Stored, InFlight
    <3>4. UpsertsOwnJob'
      BY <2>1, <2>5, <3>1, <3>2 DEF vars, IInv, UpsertsOwnJob, TypeOK
    <3>5. InsertersFoundNone' /\ SameJobOverlapped'
      BY <2>5, <3>1, <3>2 DEF vars, IInv, InsertersFoundNone, SameJobOverlapped, Stored
    <3>6. QED
      BY <2>1, <3>3, <3>4, <3>5 DEF IInv
  <2>6. QED
    BY <2>1, <2>2, <2>3, <2>4, <2>5, BeginStep, InsertStep, WriteStep, DeleteStep DEF Next
<1>3. QED
  BY <1>1, <1>2, PTL DEF Spec

\* Two jobs with one identity that no update has named come from creates
\* that overlapped: create_job is idempotent for callers that wait.
THEOREM DuplicatesNeedOverlap == Spec => []DuplicatesOnlyFromOverlaps
<1>1. IInv => DuplicatesOnlyFromOverlaps
  BY DEF IInv, DuplicatesOnlyFromOverlaps, OwnIdentity, SameJobOverlapped, SameJob, Stored
<1>2. QED
  BY <1>1, IdentitiesHold, PTL

\* No update, upsert or retry brings back a job that was deleted.
THEOREM DeletionIsFinal == Spec => DeletedStaysDeleted
<1>1. TypeOK /\ [Next]_vars
        => [\A d \in Calls : docs[d] = Nothing /\ docs'[d] # Nothing => pc[d] = "insert"]_vars
  <2> SUFFICES ASSUME TypeOK, Next, NEW d \in Calls, docs[d] = Nothing, docs'[d] # Nothing
               PROVE  pc[d] = "insert"
    BY DEF vars
  <2>1. PICK c \in Calls : docs' # docs /\ (Insert(c) \/ Write(c) \/ Delete(c))
    BY DEF Next, Begin, LookUp, Guard, Load, Get, ReadCurrent, Raise
  <2>2. CASE Insert(c)
    BY <2>2 DEF Insert, TypeOK
  <2>3. CASE Write(c)
    BY <2>3 DEF Write, TypeOK, Stored
  <2>4. CASE Delete(c)
    BY <2>4 DEF Delete, TypeOK
  <2>5. QED
    BY <2>1, <2>2, <2>3, <2>4
<1>2. QED
  BY <1>1, TypeCorrect, PTL DEF Spec, DeletedStaysDeleted

\* A paused job is enabled only by an upsert or by an update that says so.
THEOREM PausedStaysPaused == Spec => PausesHold
<1>1. IInv /\ [Next]_vars
        => [\A d \in Stored : docs[d].enabled = FALSE /\ docs'[d] # Nothing
                             /\ docs'[d].enabled = TRUE
             => \E c \in Calls : /\ target[c] = d /\ pc[c] = "write"
                                 /\ \/ request[c].kind = "create"
                                    \/ request[c].enabled = TRUE]_vars
  <2> SUFFICES ASSUME IInv, Next, NEW d \in Stored, docs[d].enabled = FALSE,
                      docs'[d] # Nothing, docs'[d].enabled = TRUE
               PROVE  \E c \in Calls : /\ target[c] = d /\ pc[c] = "write"
                                       /\ \/ request[c].kind = "create"
                                          \/ request[c].enabled = TRUE
    BY DEF vars
  <2>1. d \in Calls /\ docs[d] \in Doc /\ TypeOK
    BY DEF IInv, TypeOK, Stored
  <2>2. docs' # docs
    OBVIOUS
  <2>3. PICK c \in Calls : Insert(c) \/ Write(c) \/ Delete(c)
    BY <2>2 DEF Next, Begin, LookUp, Guard, Load, Get, ReadCurrent, Raise
  <2>4. CASE Insert(c)
    BY <2>1, <2>4 DEF Insert, IInv, InsertedByDone, TypeOK
  <2>5. CASE Write(c)
    <3>1. /\ target[c] = d /\ pc[c] = "write" /\ request[c] \in Request
          /\ docs'[d] = Updated(docs[d], request[c], known[c])
      BY <2>1, <2>5 DEF Write, TypeOK
    <3>2. docs'[d].enabled = IF "enabled" \in Written(request[c])
                             THEN NewValue(request[c], "enabled") ELSE docs[d].enabled
      BY <2>1, <3>1 DEF Updated, Doc
    <3>3. NewValue(request[c], "enabled") = TRUE
      BY <3>2
    <3>4. QED
      BY <3>1, <3>3 DEF NewValue, Request
  <2>6. CASE Delete(c)
    BY <2>1, <2>6 DEF Delete, TypeOK
  <2>7. QED
    BY <2>3, <2>4, <2>5, <2>6
<1>2. QED
  BY <1>1, IdentitiesHold, PTL DEF Spec, PausesHold
=============================================================================
