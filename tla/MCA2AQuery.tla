---------------------------- MODULE MCA2AQuery ----------------------------
\* Instances of A2AQuery for TLC.
EXTENDS A2AQuery, TLC

\* No action tells one query from another.
Symmetry == Permutations(Queries)

(***************************************************************************)
(* The part of a state that its future and the properties depend on.  A    *)
(* query keeps its start until it is answered, the end of its wait until   *)
(* it waits no more, its session until it is sent or repeated, and its     *)
(* outcome until it is recorded.  Of a query that is lost there remains    *)
(* what the document says: what its engine still does changes nothing, and *)
(* nobody will write its receipt.                                          *)
(***************************************************************************)
Kept(q, places, value) == IF pc[q] \in places THEN value ELSE NoQuery

RequestOf(q) == <<Kept(q, Request, start[q]), Kept(q, {"open", "send", "wait"}, until[q]),
                  Kept(q, Request, vs[q]), Kept(q, {"tell"}, out[q])>>

ReceiptOf(q) ==
  IF pc[q] = "lost" THEN <<>>
  ELSE <<run[q], told[q], delivered[q], pending[q], q \in missed, q \in reports>>

Asked(q) == sess = q \/ pc[q] \in Request \/ \E r \in Queries : pc[r] \in Request /\ vs[r] = q

QueryView ==
  <<now, engine, docVars, pc,
    [q \in Queries |-> <<RequestOf(q), ReceiptOf(q),
                         IF Asked(q) THEN target[q] ELSE 0>>]>>
=============================================================================
