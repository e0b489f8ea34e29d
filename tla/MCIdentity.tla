----------------------------- MODULE MCIdentity -----------------------------
(* Instances of Identity for TLC: Ann is on Slack, in two workspaces, and  *)
(* on Telegram under another name, Ben is on Slack under her name there.   *)
EXTENDS Identity, TLC

CONSTANTS t1, t2, t3, annSlack, annOther, annTelegram, benSlack,
          ann, ben, sam, slack, telegram, annMail

Person == [a \in Accounts |-> IF a = benSlack THEN ben ELSE ann]
On == [a \in Accounts |->
          CASE a \in {annSlack, annOther, benSlack} -> slack
            [] a = annTelegram -> telegram]
Mail == [a \in Accounts |->
            IF a \in {annTelegram, benSlack} THEN Nothing ELSE annMail]
Shown == [a \in Accounts |-> IF a = annTelegram THEN ann ELSE sam]
Raw == [a \in Accounts |-> a]
AllNames == {sam, ann} \cup Accounts
Ids == 1 .. 3
Times == 1 .. 2

Symmetry == Permutations(Turns)

(* What the rest of a behaviour and the properties depend on: a turn that  *)
(* is over and a script that has ended read nothing more; who was served   *)
(* matters as long as it is calm, and what users are called and when they  *)
(* were stamped as long as a turn may still store one.                     *)
MayStore == \E t \in Turns : pc[t] \in {"idle", "identity", "email", "create", "store"}
Nameless(list) == [i \in DOMAIN list |-> list[i].account]
DocumentOf(u) ==
    IF MayStore \/ users[u] = Nothing THEN users[u]
    ELSE <<users[u].email, Nameless(users[u].identities)>>
LocalsOf(t) ==
    IF pc[t] \in Over THEN <<pc[t] = "idle">>
    ELSE <<pc[t], who[t], profiled[t] \/ ~MayStore,
           IF pc[t] \in {"link", "union", "reload"} THEN held[t] ELSE Nothing>>
ScriptView ==
    IF script.step = "ended" THEN <<IF calm THEN script.account ELSE Nothing>>
    ELSE IF MayStore THEN script
    ELSE <<script.step, script.user, script.account, Nameless(script.copy)>>
View == <<[u \in UserIds |-> DocumentOf(u)], [t \in Turns |-> LocalsOf(t)], ScriptView, calm,
          IF calm THEN served ELSE Nothing, stamped>>
=============================================================================
