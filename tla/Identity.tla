------------------------------ MODULE Identity ------------------------------
(***************************************************************************)
(* Who is writing: IdentityService.resolve_user over the collection of     *)
(* users, for the turns of several messages at once, with the operator's   *)
(* hand in it (the admin page and scripts/link_identities.py).             *)
(*                                                                         *)
(* An account is a platform identity: a platform and an id on it.  A turn  *)
(* makes one Firestore access at a time, and any of them may fail: the     *)
(* reads then answer None, the writes raise.  Ids of users are drawn at    *)
(* random and order the answers of a query, so a new user takes any free   *)
(* place in that order.                                                    *)
(***************************************************************************)
EXTENDS Integers, Sequences, FiniteSets

CONSTANTS
    Turns,       \* messages being processed, each of one account
    Accounts,    \* platform identities
    Persons,     \* the people behind them
    Platforms,
    Emails,
    Names,       \* names shown on the platforms, and ids standing in for them
    UserIds,     \* document ids, in the order queries answer
    PersonOf,    \* account -> person
    PlatformOf,  \* account -> platform
    EmailOf,     \* account -> what its profile says, or Nothing
    NameOf,      \* account -> the display name in its profile
    RawName,     \* account -> its platform id, used as a name
    InEvent,     \* accounts whose email comes with every event (Google Chat)
    ScanLimit,   \* users the lookup by identity reads
    Stamps,      \* the times a document can be stamped with
    Nothing      \* None

(* User.identities, one entry per link: ArrayUnion compares whole entries, *)
(* linked_at among them, so it adds one even where the account has one.    *)
Linked == [account : Accounts, name : Names]

User ==
    [primary : Names, email : Emails \cup {Nothing}, identities : Seq(Linked),
     created : Nat]

(* Email addresses are people's own: no two share one.  Names are not.     *)
ASSUME IdentityAssumption ==
    /\ UserIds \subseteq Nat
    /\ ScanLimit \in Nat \ {0}
    /\ Stamps \subseteq Nat
    /\ Nothing \notin Emails \cup UserIds \cup User \cup Accounts
    /\ IsFiniteSet(UserIds)
    /\ \A S \in SUBSET UserIds : S # {} => \E u \in S : \A v \in S : u <= v
    /\ Accounts # {}
    /\ PersonOf \in [Accounts -> Persons]
    /\ PlatformOf \in [Accounts -> Platforms]
    /\ EmailOf \in [Accounts -> Emails \cup {Nothing}]
    /\ NameOf \in [Accounts -> Names]
    /\ RawName \in [Accounts -> Names]
    /\ InEvent \subseteq Accounts
    /\ \A a, b \in Accounts :
          EmailOf[a] = EmailOf[b] /\ EmailOf[a] # Nothing => PersonOf[a] = PersonOf[b]

VARIABLES
    users,     \* user id -> document, Nothing when there is none
    pc,        \* turn -> the access it makes next, or how it ended
    who,       \* turn -> account of the sender
    profiled,  \* turn -> get_user_info found the sender's profile
    held,      \* turn -> the user found or made so far
    stamp,     \* turn -> the created_at it took for the user it is storing
    script,    \* the run of link_identities.py
    served,    \* history: account -> users its turns were served as
    calm,      \* history: nothing failed and nobody was worked on twice at once
    seen       \* history: turn -> the users stored when it took its stamp

stamped == <<stamp, seen>>
vars == <<users, pc, who, profiled, held, script, served, calm, stamped>>

Over == {"idle", "served", "raised"}
Existing == {u \in UserIds : users[u] # Nothing}
First(S) == CHOOSE u \in S : \A v \in S : u <= v

AccountsOf(u) == {users[u].identities[i].account : i \in DOMAIN users[u].identities}
NamesOf(u) ==
    {users[u].primary} \cup
    {users[u].identities[i].name : i \in DOMAIN users[u].identities}

(* get_user_info answers with the bare id when the platform does not; the  *)
(* email is then the one of the event, if any.                             *)
Known(t) ==
    LET a == who[t]
    IN  [email |-> IF profiled[t] \/ a \in InEvent THEN EmailOf[a] ELSE Nothing,
         entry |-> [account |-> a,
                    name |-> IF profiled[t] THEN NameOf[a] ELSE RawName[a]]]

(* User.get_platform_identity: the first entry of the platform.            *)
OnPlatform(u, p) ==
    LET at == {i \in DOMAIN users[u].identities :
                  PlatformOf[users[u].identities[i].account] = p}
    IN  IF at = {} THEN Nothing ELSE users[u].identities[First(at)].account

\* Mutant: the first in the order of the query, whenever it was created.
ByAnyNameUnsorted(n) ==
    LET named == {u \in Existing : n \in NamesOf(u)}
    IN  IF named = {} THEN Nothing ELSE First(named)

(* The order get_user_by_any_name sorts by: created_at, then the id.       *)
Before(u, v) ==
    \/ users[u].created < users[v].created
    \/ users[u].created = users[v].created /\ u <= v

(* get_user_by_any_name: the first of those with the name.                 *)
ByAnyName(n) ==
    LET named == {u \in Existing : n \in NamesOf(u)}
    IN  IF named = {} THEN Nothing
        ELSE CHOOSE u \in named : \A v \in named : Before(u, v)

(* The people some turn or the script is at work on.                       *)
InHand ==
    {PersonOf[who[t]] : t \in {x \in Turns : pc[x] \notin Over}} \cup
    (IF script.step \in {"check", "write"} THEN {PersonOf[script.account]} ELSE {})

-----------------------------------------------------------------------------
TypeOK ==
    /\ users \in [UserIds -> User \cup {Nothing}]
    /\ pc \in [Turns -> Over \cup {"identity", "email", "link", "union", "reload", "create", "store"}]
    /\ who \in [Turns -> Accounts]
    /\ profiled \in [Turns -> BOOLEAN]
    /\ held \in [Turns -> UserIds \cup {Nothing}]
    /\ stamp \in [Turns -> Nat] /\ seen \in [Turns -> SUBSET UserIds]
    /\ script \in [step : {"idle", "check", "write", "ended"},
                   user : UserIds \cup {Nothing}, account : Accounts,
                   name : Names, copy : Seq(Linked)]
    /\ served \in [Accounts -> SUBSET UserIds]
    /\ calm \in BOOLEAN

Init ==
    /\ users = [u \in UserIds |-> Nothing]
    /\ pc = [t \in Turns |-> "idle"]
    /\ who = [t \in Turns |-> CHOOSE a \in Accounts : TRUE]
    /\ profiled = [t \in Turns |-> TRUE]
    /\ held = [t \in Turns |-> Nothing]
    /\ stamp = [t \in Turns |-> 0] /\ seen = [t \in Turns |-> {}]
    /\ script = LET a == CHOOSE a \in Accounts : TRUE
                IN  [step |-> "idle", user |-> Nothing, account |-> a,
                     name |-> NameOf[a], copy |-> <<>>]
    /\ served = [a \in Accounts |-> {}]
    /\ calm = TRUE

Goto(t, from, to) == pc[t] = from /\ pc' = [pc EXCEPT ![t] = to]

Serve(t, from, u) ==
    /\ Goto(t, from, "served")
    /\ held' = [held EXCEPT ![t] = u]
    /\ served' = [served EXCEPT ![who[t]] = @ \cup {u}]

(* A turn starts: get_user_info, then resolve_user.                        *)
Begin(t) ==
    \E a \in Accounts, found \in BOOLEAN :
        /\ Goto(t, "idle", "identity")
        /\ who' = [who EXCEPT ![t] = a]
        /\ profiled' = [profiled EXCEPT ![t] = found]
        /\ calm' = (calm /\ found /\ PersonOf[a] \notin InHand)
        /\ UNCHANGED <<users, held, script, served, stamped>>

-----------------------------------------------------------------------------
(* get_user_by_identity: the first ScanLimit users, filtered in memory.    *)
Scanned == {u \in Existing : Cardinality({v \in Existing : v <= u}) <= ScanLimit}

\* Mutant: the email is looked up also when there is none, and finds the
\* users without one.
NotFoundAnyEmail(t) == "email"

NotFound(t) == IF Known(t).email # Nothing THEN "email" ELSE "create"

FindIdentity(t) ==
    LET found == {u \in Scanned : who[t] \in AccountsOf(u)}
    IN  /\ pc[t] = "identity"
        /\ IF found # {}
           THEN Serve(t, "identity", First(found)) /\ UNCHANGED calm
           ELSE /\ Goto(t, "identity", NotFound(t))
                /\ calm' = (calm /\ \A u \in Existing : who[t] \notin AccountsOf(u))
                /\ UNCHANGED <<held, served>>
        /\ UNCHANGED <<users, who, profiled, script, stamped>>

FindIdentityFails(t) ==
    /\ pc[t] = "identity"
    /\ Goto(t, "identity", NotFound(t))
    /\ calm' = FALSE
    /\ UNCHANGED <<users, who, profiled, held, script, served, stamped>>

(* get_user_by_email: a query for one user, None after an error.           *)
FindEmail(t) ==
    LET found == {u \in Existing : users[u].email = Known(t).email}
    IN  /\ IF found # {}
           THEN /\ Goto(t, "email", "link")
                /\ held' = [held EXCEPT ![t] = First(found)]
           ELSE Goto(t, "email", "create") /\ UNCHANGED held
        /\ UNCHANGED <<users, who, profiled, script, served, calm, stamped>>

FindEmailFails(t) ==
    /\ Goto(t, "email", "create")
    /\ calm' = FALSE
    /\ UNCHANGED <<users, who, profiled, held, script, served, stamped>>

\* Mutant: a user with another account on the platform is linked as well.
LinkReadUnchecked(t) ==
    /\ Goto(t, "link", "union")
    /\ UNCHANGED <<users, who, profiled, held, script, served, calm, stamped>>

(* link_identity reads the user again and refuses one that has another     *)
(* account on the platform.                                                *)
LinkRead(t) ==
    LET other == OnPlatform(held[t], PlatformOf[who[t]])
    IN  /\ pc[t] = "link"
        /\ \/ other = Nothing /\ Goto(t, "link", "union")
           \/ other = who[t] /\ Goto(t, "link", "reload")
           \/ other \notin {Nothing, who[t]} /\ Goto(t, "link", "raised")
        /\ UNCHANGED <<users, who, profiled, held, script, served, calm, stamped>>

(* add_user_identity.                                                      *)
LinkWrite(t) ==
    /\ Goto(t, "union", "reload")
    /\ users' = [users EXCEPT ![held[t]].identities = Append(@, Known(t).entry)]
    /\ UNCHANGED <<who, profiled, held, script, served, calm, stamped>>

\* Mutant: a user who could not be read back is served all the same.
ReloadOrNobody(t) ==
    /\ \E u \in {held[t], Nothing} : Serve(t, "reload", u)
    /\ UNCHANGED <<users, who, profiled, script, calm, stamped>>

(* The user read back after the link; None, after an error, ends the turn. *)
Reload(t) ==
    /\ Serve(t, "reload", held[t])
    /\ UNCHANGED <<users, who, profiled, script, calm, stamped>>

(* create_user takes the time ...  Clocks of instances differ by less than *)
(* a user takes to be stored, so a stamp is later than those of all users  *)
(* that are stored by then; those of users that are being stored may be    *)
(* later or the same.                                                      *)
Stamp(t) ==
    \E n \in Stamps :
        /\ Goto(t, "create", "store")
        /\ \A u \in Existing : users[u].created < n
        /\ stamp' = [stamp EXCEPT ![t] = n]
        /\ seen' = [seen EXCEPT ![t] = Existing]
        /\ UNCHANGED <<users, who, profiled, held, script, served, calm>>

(* ... and stores the document, which arrives when it does.                *)
Create(t) ==
    \E u \in UserIds \ Existing :
        /\ Serve(t, "store", u)
        /\ users' = [users EXCEPT ![u] =
                        [primary |-> Known(t).entry.name, email |-> Known(t).email,
                         identities |-> <<Known(t).entry>>, created |-> stamp[t]]]
        /\ stamp' = [stamp EXCEPT ![t] = 0] /\ seen' = [seen EXCEPT ![t] = {}]
        /\ UNCHANGED <<who, profiled, script, calm>>

(* An access from which the turn does not recover: the catch-all of        *)
(* process_platform_event logs it and the message is dropped.              *)
Raise(t) ==
    /\ \E from \in {"link", "union", "reload", "store"} : Goto(t, from, "raised")
    /\ calm' = FALSE
    /\ UNCHANGED <<users, who, profiled, held, script, served, stamped>>

-----------------------------------------------------------------------------
(* The operator.  What he enters is right: one of a user's names, their    *)
(* own email, an account of the same person.                               *)
Owner(u) == PersonOf[users[u].identities[1].account]

(* The admin page, update_user: the whole form, but no accounts.           *)
EditUser ==
    \E u \in Existing, e \in {Nothing} \cup Emails : \E n \in NamesOf(u) :
        /\ e # Nothing => \E a \in Accounts : EmailOf[a] = e /\ PersonOf[a] = Owner(u)
        /\ users' = [users EXCEPT ![u].email = e, ![u].primary = n]
        /\ calm' = (calm /\ e # Nothing /\ Owner(u) \notin InHand
                         /\ \A v \in Existing \ {u} : users[v].email # e)
        /\ UNCHANGED <<pc, who, profiled, held, script, served, stamped>>

\* Mutant: the copy starts empty instead of with the user's identities.
ScriptReadNothing ==
    \E u \in Existing, a \in Accounts :
        /\ script.step = "idle"
        /\ PersonOf[a] = Owner(u)
        /\ script' = [step |-> "check", user |-> u, account |-> a,
                      name |-> NameOf[a], copy |-> <<>>]
        /\ calm' = (calm /\ PersonOf[a] \notin InHand)
        /\ UNCHANGED <<users, pc, who, profiled, held, served, stamped>>

(* scripts/link_identities.py reads the whole array of identities, looks   *)
(* for the account in the other users, and writes the whole array back.    *)
ScriptRead ==
    \E u \in Existing, a \in Accounts :
        LET here == {i \in DOMAIN users[u].identities :
                        users[u].identities[i].account = a}
            entry == [account |-> a, name |-> NameOf[a]]
        IN  /\ script.step = "idle"
            /\ PersonOf[a] = Owner(u)
            /\ script' =
                 [step |-> IF here # {} THEN "write" ELSE "check",
                  user |-> u, account |-> a, name |-> NameOf[a],
                  copy |-> IF here # {}
                           THEN [users[u].identities EXCEPT ![First(here)] = entry]
                           ELSE users[u].identities]
            /\ calm' = (calm /\ PersonOf[a] \notin InHand)
            /\ UNCHANGED <<users, pc, who, profiled, held, served, stamped>>

ScriptCheck ==
    /\ script.step = "check"
    /\ IF \E u \in Existing \ {script.user} : script.account \in AccountsOf(u)
       THEN script' = [script EXCEPT !.step = "ended"]
       ELSE script' = [script EXCEPT !.step = "write",
                          !.copy = Append(@, [account |-> script.account,
                                              name |-> script.name])]
    /\ UNCHANGED <<users, pc, who, profiled, held, served, calm, stamped>>

ScriptWrite ==
    /\ script.step = "write"
    /\ script' = [script EXCEPT !.step = "ended"]
    /\ users' = [users EXCEPT ![script.user].identities = script.copy]
    /\ UNCHANGED <<pc, who, profiled, held, served, calm, stamped>>

Next ==
    \/ \E t \in Turns :
          \/ Begin(t) \/ FindIdentity(t) \/ FindIdentityFails(t)
          \/ FindEmail(t) \/ FindEmailFails(t)
          \/ LinkRead(t) \/ LinkWrite(t) \/ Reload(t)
          \/ Stamp(t) \/ Create(t) \/ Raise(t)
    \/ EditUser \/ ScriptRead \/ ScriptCheck \/ ScriptWrite

Spec == Init /\ [][Next]_vars

-----------------------------------------------------------------------------
(* Whatever fails and whoever works on whom at once, a user never holds    *)
(* accounts of two people, nor an email of another person than theirs.     *)
OnePersonPerUser ==
    \A u \in Existing, a \in Accounts :
        a \in AccountsOf(u) =>
            /\ \A b \in AccountsOf(u) : PersonOf[b] = PersonOf[a]
            /\ \A b \in Accounts :
                  EmailOf[b] # Nothing /\ EmailOf[b] = users[u].email
                      => PersonOf[b] = PersonOf[a]

(* An agent is told a name and passes it back, in a later call, for the    *)
(* user it stands for.  A user who turns up in between, with a name that   *)
(* was already somebody's, does not become that somebody, unless that      *)
(* somebody was stored while the newcomer was on the way, stamped but not  *)
(* yet stored.                                                             *)
NewcomersTakeNoName ==
    [][\A t \in Turns, n \in Names :
          pc[t] = "store" /\ pc'[t] = "served" /\ ByAnyName(n) \in seen[t]
              => ByAnyName(n)' = ByAnyName(n)]_vars

(* As long as nothing fails and no person is worked on twice at once, the  *)
(* collection is what a unified user promises: an account and an email     *)
(* have one user, and a user has one account on a platform, unless the     *)
(* operator linked another.                                                *)
Unified ==
    calm =>
        /\ \A u, v \in Existing :
              u # v => /\ AccountsOf(u) \cap AccountsOf(v) = {}
                       /\ users[u].email = users[v].email => users[u].email = Nothing
        /\ \A u \in Existing : \A a, b \in AccountsOf(u) :
              PlatformOf[a] = PlatformOf[b] => a = b \/ script.account \in {a, b}

(* ... and every turn of an account is served as the same user, so that    *)
(* the account has one conversation with each agent and one history.       *)
SameUserEveryTime ==
    calm => \A a \in Accounts : Cardinality(served[a]) <= 1

=============================================================================
