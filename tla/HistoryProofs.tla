--------------------------- MODULE HistoryProofs ----------------------------
(***************************************************************************)
(* For any page size, response cap, range, number of messages and          *)
(* retention, and whatever is logged late, deleted or unreadable while the *)
(* agent reads: pages of get_messages ascend, so that nothing is read      *)
(* twice, and get on with the range; a reading without a next_cursor left  *)
(* out nothing but what pages cannot get past; and what get_context shows  *)
(* has no gap.                                                             *)
(***************************************************************************)
EXTENDS History, FiniteSetTheorems, WellFoundedInduction, TLAPS

\* The clock, the log and the agent's reading keep their types.
THEOREM TypeCorrect == Spec => []TypeOK
<1> USE HistoryAssumption DEF TypeOK, logVars, Times
<1>1. Init => TypeOK
  BY DEF Init
<1>2. TypeOK /\ [Next]_vars => TypeOK'
  <2> SUFFICES ASSUME TypeOK, [Next]_vars PROVE TypeOK'
    OBVIOUS
  <2>1. ASSUME Tick PROVE TypeOK'
    BY <2>1 DEF Tick
  <2>2. ASSUME NEW m \in Messages, Stamp(m) PROVE TypeOK'
    BY <2>2 DEF Stamp
  <2>3. ASSUME NEW m \in Messages, Append(m) PROVE TypeOK'
    BY <2>3 DEF Append
  <2>4. ASSUME NEW m \in Messages, Expire(m) PROVE TypeOK'
    BY <2>4 DEF Expire
  <2>5. ASSUME NEW after, ShowPage(after)
        PROVE  page' \in SUBSET Messages /\ cursor' \in Times \cup {Nothing}
               /\ call' \in {"paging", "paged"}
    <3> DEFINE read(k) == Valid(FirstOf(InRange(after), k + 1))
               rows(k) == FirstOf(read(k), k)
               shown(k) == Fitting(rows(k))
    <3>1. \A k \in Limits : shown(k) \in SUBSET Messages
      BY DEF Fitting, FirstOf, Valid, InRange, Stored
    <3>2. PICK k \in Limits :
             /\ NextCursor(rows(k), shown(k), Cardinality(read(k)) > k)
             /\ page' = shown(k)
             /\ call' = IF cursor' = Nothing THEN "paged" ELSE "paging"
      BY <2>5 DEF ShowPage
    <3> HIDE DEF read, rows, shown
    <3>3. page' \in SUBSET Messages
      BY <3>1, <3>2
    <3>4. cursor' = Nothing \/ \E m \in Messages : cursor' = at[m]
      BY <3>1, <3>2 DEF NextCursor, Last
    <3>5. cursor' \in Times \cup {Nothing}
      BY <3>4
    <3>6. call' \in {"paging", "paged"}
      BY <3>2
    <3>7. QED
      BY <3>3, <3>5, <3>6
  <2>6. ASSUME FirstPage PROVE TypeOK'
    BY <2>5, <2>6 DEF FirstPage, Stored
  <2>7. ASSUME NextPage PROVE TypeOK'
    BY <2>5, <2>7 DEF NextPage
  <2>8. ASSUME Search PROVE TypeOK'
    <3>1. \A k \in Limits : Hits(k) \in SUBSET Messages
      BY DEF Hits, Valid, InRange, Stored
    <3>2. QED
      BY <2>8, <3>1 DEF Search
  <2>9. ASSUME GetMessage PROVE TypeOK'
    BY <2>9 DEF GetMessage, Stored
  <2>10. ASSUME ReadBefore PROVE TypeOK'
    BY <2>10 DEF ReadBefore, Valid, Preceding, LastOf, Stored
  <2>11. ASSUME ReadAfter PROVE TypeOK'
    <3>1. PICK k : page' = LastOf(page \ {anchor}, k[1]) \cup {anchor}
                              \cup FirstOf(Valid(Following), k[2])
      BY <2>11 DEF ReadAfter
    <3>2. page' \in SUBSET Messages
      BY <2>11, <3>1 DEF ReadAfter, LastOf, FirstOf, Valid, Following, Stored
    <3>3. QED
      BY <2>11, <3>2 DEF ReadAfter
  <2>12. CASE UNCHANGED vars
    BY <2>12 DEF vars
  <2>13. QED
    BY <2>1, <2>2, <2>3, <2>4, <2>6, <2>7, <2>8, <2>9, <2>10, <2>11, <2>12 DEF Next
<1>3. QED
  BY <1>1, <1>2, PTL DEF Spec
-----------------------------------------------------------------------------
(* The inductive invariant of a reading.  What was shown was stored, so    *)
(* its time is settled; the cursor is the time of the last message shown,  *)
(* and a next page begins after it.                                        *)
ShownIsSettled == call \in {"paging", "paged"} => \A m \in seen \cup page : status[m] # "none"

CursorIsPassed ==
  call = "paging" => cursor \in Nat /\ \A m \in seen \cup page : at[m] <= cursor

NothingSeenBefore == call \in {"paging", "paged"} \/ seen = {}

IInv == TypeOK /\ ShownIsSettled /\ CursorIsPassed /\ NothingSeenBefore /\ PagesAscend

\* What a page shows is stored and later than the cursor it was asked for
\* with, and its next_cursor, if it has one, is the time of its last message.
LEMMA PageShown ==
  ASSUME TypeOK, NEW after, ShowPage(after), UNCHANGED <<status, at, text>>
  PROVE  /\ \A m \in page' : /\ m \in Messages /\ status[m] = "stored"
                             /\ at[m] <= To
                             /\ after # Nothing => at[m] > after
         /\ call' \in {"paging", "paged"}
         /\ call' = "paging" => /\ cursor' \in Nat
                                /\ \A m \in page' : at[m] <= cursor'
                                /\ \E m \in page' : at[m] = cursor'
<1> DEFINE read(k) == Valid(FirstOf(InRange(after), k + 1))
           rows(k) == FirstOf(read(k), k)
<1>0. PICK k \in Limits :
         /\ NextCursor(rows(k), Fitting(rows(k)), Cardinality(read(k)) > k)
         /\ page' = Fitting(rows(k))
         /\ call' = IF cursor' = Nothing THEN "paged" ELSE "paging"
  BY DEF ShowPage
<1> DEFINE shown == Fitting(rows(k))
<1>1. \A m \in shown : m \in InRange(after)
  BY DEF Fitting, FirstOf, Valid
<1>2. \A m \in shown : /\ m \in Messages /\ status[m] = "stored"
                       /\ at[m] <= To
                       /\ after # Nothing => at[m] > after
  BY <1>1 DEF InRange, Stored
<1> HIDE DEF read, rows, shown
<1>3. /\ NextCursor(rows(k), shown, Cardinality(read(k)) > k) /\ page' = shown
      /\ call' = IF cursor' = Nothing THEN "paged" ELSE "paging"
  BY <1>0 DEF shown
<1>4. ASSUME call' = "paging" PROVE \E m \in Last(shown) : cursor' = at[m]
  BY <1>3, <1>4 DEF NextCursor
<1>5. \A m \in Messages : at[m] \in Nat
  BY HistoryAssumption DEF TypeOK, Times
<1>6. ASSUME NEW m \in Last(shown), NEW n \in shown PROVE at[n] <= at[m] /\ m \in shown
  BY <1>2, <1>5 DEF Last, Before
<1>7. ASSUME call' = "paging"
      PROVE  /\ cursor' \in Nat /\ \A m \in page' : at[m] <= cursor'
             /\ \E m \in page' : at[m] = cursor'
  <2>1. PICK m \in Last(shown) : cursor' = at[m]
    BY <1>4, <1>7
  <2>2. m \in shown /\ at[m] \in Nat
    BY <1>2, <1>5 DEF Last
  <2>3. QED
    BY <1>3, <1>6, <2>1, <2>2
<1>8. QED
  BY <1>2, <1>3, <1>7

LEMMA ReadingInvariant == Spec => []IInv
<1>1. Init => IInv
  <2> SUFFICES ASSUME Init PROVE IInv
    OBVIOUS
  <2>1. TypeOK
    BY HistoryAssumption DEF Init, TypeOK, Times
  <2>2. QED
    BY <2>1 DEF Init, IInv, ShownIsSettled, CursorIsPassed, NothingSeenBefore, PagesAscend
<1>2. TypeOK /\ TypeOK' /\ IInv /\ [Next]_vars => IInv'
  <2> SUFFICES ASSUME TypeOK, TypeOK', IInv, [Next]_vars PROVE IInv'
    OBVIOUS
  <2> USE DEF IInv, ShownIsSettled, CursorIsPassed, NothingSeenBefore, PagesAscend, logVars
  <2>1. CASE Tick \/ UNCHANGED vars
    BY <2>1 DEF Tick, vars
  <2>2. ASSUME NEW m \in Messages, Stamp(m) PROVE IInv'
    <3>1. \A n \in Messages : status[n] # "none" => at'[n] = at[n] /\ status'[n] = status[n]
      BY <2>2 DEF Stamp, TypeOK
    <3>2. seen \cup page \subseteq Messages /\ UNCHANGED <<call, cursor, page, seen>>
      BY <2>2 DEF Stamp, TypeOK
    <3>3. QED
      BY <3>1, <3>2
  <2>3. ASSUME NEW m \in Messages, Append(m) \/ Expire(m) PROVE IInv'
    <3>1. /\ \A n \in Messages : status[n] # "none" => status'[n] # "none"
          /\ UNCHANGED <<at, call, cursor, page, seen>> /\ seen \cup page \subseteq Messages
      BY <2>3 DEF Append, Expire, TypeOK
    <3>2. QED
      BY <3>1
  <2>4. ASSUME FirstPage PROVE IInv'
    <3>1. seen = {} /\ seen' = {}
      BY <2>4 DEF FirstPage
    <3>2. QED
      BY <2>4, <3>1, PageShown DEF FirstPage
  <2>5. ASSUME NextPage PROVE IInv'
    <3>1. /\ call = "paging" /\ ShowPage(cursor) /\ seen' = seen \cup page
          /\ UNCHANGED <<status, at, text>>
      BY <2>5 DEF NextPage
    <3>2. cursor \in Nat /\ cursor # Nothing
      BY <3>1, HistoryAssumption
    <3>3. \A m \in seen', n \in page' : at[m] < at[n]
      <4> SUFFICES ASSUME NEW m \in seen', NEW n \in page' PROVE at[m] < at[n]
        OBVIOUS
      <4>1. m \in Messages /\ n \in Messages
        BY DEF TypeOK
      <4> at[m] \in Nat /\ at[n] \in Nat
        BY <4>1, HistoryAssumption DEF TypeOK, Times
      <4>2. at[m] <= cursor /\ cursor < at[n]
        BY <3>1, <3>2, PageShown
      <4>3. QED
        BY <3>2, <4>1, <4>2
    <3>4. call' = "paging" => /\ cursor' \in Nat /\ \A m \in page' : at[m] <= cursor'
                              /\ \E m \in page' : at[m] = cursor'
      BY <3>1, PageShown
    <3>5. ASSUME call' = "paging" PROVE \A m \in seen' : at[m] <= cursor'
      <4>1. PICK n \in page' : at[n] = cursor'
        BY <3>4, <3>5
      <4> seen' \subseteq Messages
        BY DEF TypeOK
      <4>2. \A m \in Messages : at[m] \in Nat
        BY HistoryAssumption DEF TypeOK, Times
      <4>3. \A m \in seen' : at[m] < cursor'
        BY <3>3, <4>1
      <4>4. QED
        BY <3>4, <3>5, <4>2, <4>3
    <3>6. \A m \in seen' \cup page' : status[m] # "none"
      BY <3>1, PageShown
    <3>7. call' \in {"paging", "paged"}
      BY <3>1, PageShown
    <3>8. QED
      BY <3>1, <3>3, <3>4, <3>5, <3>6, <3>7
  <2>6. ASSUME Search \/ GetMessage \/ ReadBefore \/ ReadAfter PROVE IInv'
    BY <2>6 DEF Search, GetMessage, ReadBefore, ReadAfter
  <2>7. QED
    BY <2>1, <2>2, <2>3, <2>4, <2>5, <2>6 DEF Next
<1>3. QED
  BY <1>1, <1>2, TypeCorrect, PTL DEF Spec

\* No message is shown on two pages: a page is later than all before it.
THEOREM PagesAlwaysAscend == Spec => []PagesAscend
<1>1. IInv => PagesAscend
  BY DEF IInv
<1>2. QED
  BY <1>1, ReadingInvariant, PTL

\* The cursor of a page is later than the one it was asked for with, and no
\* later than the end of the range: so the pages of one reading are no more
\* than its instants, whatever is logged meanwhile.
CursorAdvances ==
  [][NextPage => cursor' = Nothing \/ (cursor' \in Nat /\ cursor < cursor' /\ cursor' <= To)]_vars

\* An agent that pages comes closer to the end of the range with each page.
THEOREM PagesGetOn == Spec => CursorAdvances
<1>1. ASSUME TypeOK, IInv, NextPage
      PROVE  cursor' = Nothing \/ (cursor' \in Nat /\ cursor < cursor' /\ cursor' <= To)
  <2> SUFFICES ASSUME cursor' # Nothing
               PROVE  cursor' \in Nat /\ cursor < cursor' /\ cursor' <= To
    OBVIOUS
  <2>1. ShowPage(cursor) /\ UNCHANGED <<status, at, text>> /\ call = "paging"
    BY <1>1 DEF NextPage, logVars
  <2>2. cursor \in Nat /\ cursor # Nothing
    BY <1>1, <2>1, HistoryAssumption DEF IInv, CursorIsPassed
  <2>3. call' = "paging"
    BY <2>1 DEF ShowPage
  <2>4. cursor' \in Nat /\ \E m \in page' : at[m] = cursor'
    BY <1>1, <2>1, <2>3, PageShown
  <2>5. \A m \in page' : at[m] <= To /\ at[m] > cursor
    BY <1>1, <2>1, <2>2, PageShown
  <2>6. QED
    BY <2>4, <2>5
<1>2. QED
  BY <1>1, TypeCorrect, ReadingInvariant, PTL DEF CursorAdvances

-----------------------------------------------------------------------------
(* The order of a query is a total order, so that every set of messages    *)
(* has an earliest, and what limit(k) answers is closed on one side.       *)
LEMMA OrderOfQuery ==
  ASSUME TypeOK, NEW l \in Messages, NEW m \in Messages, NEW n \in Messages
  PROVE  /\ at[m] \in Nat
         /\ ~ Before(m, m)
         /\ Before(l, m) /\ Before(m, n) => Before(l, n)
         /\ m # n => Before(m, n) \/ Before(n, m)
         /\ Before(m, n) => ~ Before(n, m) /\ at[m] <= at[n]
         /\ at[m] < at[n] => Before(m, n)
<1>1. at[l] \in Nat /\ at[m] \in Nat /\ at[n] \in Nat
  BY HistoryAssumption DEF TypeOK, Times
<1>2. l \in Nat /\ m \in Nat /\ n \in Nat
  BY HistoryAssumption
<1>3. QED
  BY <1>1, <1>2 DEF Before

Order ==
  \A l, m, n \in Messages :
    /\ at[m] \in Nat
    /\ ~ Before(m, m)
    /\ Before(l, m) /\ Before(m, n) => Before(l, n)
    /\ m # n => Before(m, n) \/ Before(n, m)
    /\ Before(m, n) => ~ Before(n, m) /\ at[m] <= at[n]
    /\ at[m] < at[n] => Before(m, n)

LEMMA Ordered == TypeOK => Order
BY OrderOfQuery DEF Order

LEMMA LeastNatural ==
  ASSUME NEW S \in SUBSET Nat, S # {}
  PROVE  \E n \in S : \A m \in S : n <= m
<1>1. PICK n \in S : \A m \in S : <<m, n>> \notin OpToRel(<, Nat)
  BY NatLessThanWellFounded, WFMin
<1>2. \A m \in S : ~ (m < n)
  BY <1>1 DEF OpToRel
<1>3. QED
  BY <1>2

LEMMA Earliest ==
  ASSUME TypeOK, NEW S \in SUBSET Messages, S # {}
  PROVE  \E x \in S : \A n \in S : n # x => Before(x, n)
<1>1. \A m \in Messages : at[m] \in Nat /\ m \in Nat
  BY OrderOfQuery, HistoryAssumption
<1>2. PICK a \in {at[m] : m \in S} : \A b \in {at[m] : m \in S} : a <= b
  <2>1. {at[m] : m \in S} \in SUBSET Nat /\ {at[m] : m \in S} # {}
    BY <1>1
  <2>2. QED
    BY <2>1, LeastNatural
<1>3. PICK x \in {m \in S : at[m] = a} : \A n \in {m \in S : at[m] = a} : x <= n
  <2>1. {m \in S : at[m] = a} \in SUBSET Nat /\ {m \in S : at[m] = a} # {}
    BY <1>1, <1>2
  <2>2. QED
    BY <2>1, LeastNatural
<1>4. \A n \in S : n # x => Before(x, n)
  BY <1>1, <1>2, <1>3 DEF Before
<1>5. QED
  BY <1>3, <1>4

\* Sets of messages can be counted, and fewer of them count less.
LEMMA Counted ==
  ASSUME NEW S \in SUBSET Messages, NEW T \in SUBSET S
  PROVE  /\ Cardinality(S) \in Nat /\ Cardinality(T) \in Nat
         /\ Cardinality(T) <= Cardinality(S)
         /\ T # S => Cardinality(T) < Cardinality(S)
<1>1. IsFiniteSet(S) /\ IsFiniteSet(T)
  BY HistoryAssumption, FS_Subset
<1>2. QED
  BY <1>1, FS_Subset, FS_CardinalityType

\* What comes before one of the first k is one of the first k ...
LEMMA FirstClosed ==
  ASSUME TypeOK, NEW S \in SUBSET Messages, NEW k \in Int,
         NEW n \in FirstOf(S, k), NEW m \in S, Before(m, n)
  PROVE  m \in FirstOf(S, k)
<1>1. {l \in S : Before(l, m)} \subseteq {l \in S : Before(l, n)}
  BY OrderOfQuery DEF FirstOf
<1>2. /\ Cardinality({l \in S : Before(l, m)}) \in Nat
      /\ Cardinality({l \in S : Before(l, n)}) \in Nat
      /\ Cardinality({l \in S : Before(l, m)}) <= Cardinality({l \in S : Before(l, n)})
  BY <1>1, Counted
<1>3. QED
  BY <1>2 DEF FirstOf

\* ... what comes after one of the last k is one of the last k ...
LEMMA LastClosed ==
  ASSUME TypeOK, NEW S \in SUBSET Messages, NEW k \in Int,
         NEW n \in LastOf(S, k), NEW m \in S, Before(n, m)
  PROVE  m \in LastOf(S, k)
<1>1. {l \in S : Before(m, l)} \subseteq {l \in S : Before(n, l)}
  BY OrderOfQuery DEF LastOf
<1>2. /\ Cardinality({l \in S : Before(m, l)}) \in Nat
      /\ Cardinality({l \in S : Before(n, l)}) \in Nat
      /\ Cardinality({l \in S : Before(m, l)}) <= Cardinality({l \in S : Before(n, l)})
  BY <1>1, Counted
<1>3. QED
  BY <1>2 DEF LastOf

\* ... if there are no more than k, the first k are all ...
LEMMA FirstIsAll ==
  ASSUME TypeOK, NEW S \in SUBSET Messages, NEW k \in Nat, Cardinality(S) <= k
  PROVE  FirstOf(S, k) = S
<1> SUFFICES ASSUME NEW m \in S PROVE Cardinality({l \in S : Before(l, m)}) < k
  BY DEF FirstOf
<1>1. {l \in S : Before(l, m)} # S
  BY OrderOfQuery
<1>2. QED
  BY <1>1, Counted

\* ... and if one is left out, there are k, all before it.
LEMMA FirstIsFull ==
  ASSUME TypeOK, NEW S \in SUBSET Messages, NEW k \in Nat, NEW m \in S, m \notin FirstOf(S, k)
  PROVE  /\ k <= Cardinality(FirstOf(S, k))
         /\ \A n \in FirstOf(S, k) : Before(n, m)
<1> DEFINE F == FirstOf(S, k)
<1>1. F \in SUBSET S
  BY DEF FirstOf
<1>2. PICK x \in S \ F : \A n \in S \ F : n # x => Before(x, n)
  <2>1. S \ F \in SUBSET Messages /\ S \ F # {}
    OBVIOUS
  <2>2. QED
    BY <2>1, Earliest
<1>3. {l \in S : Before(l, x)} \subseteq F
  BY <1>2, OrderOfQuery
<1>4. ~ (Cardinality({l \in S : Before(l, x)}) < k)
  BY <1>2 DEF FirstOf
<1>5. F \in SUBSET Messages
  BY <1>1
<1>6. k <= Cardinality(F)
  <2>1. /\ Cardinality({l \in S : Before(l, x)}) \in Nat /\ Cardinality(F) \in Nat
        /\ Cardinality({l \in S : Before(l, x)}) <= Cardinality(F)
    BY <1>3, <1>5, Counted
  <2>2. QED
    BY <1>4, <2>1
<1>7. \A n \in F : Before(n, m)
  BY <1>1, FirstClosed, OrderOfQuery
<1>8. QED
  BY <1>6, <1>7

\* Room grows with the messages, and one message takes its own.
LEMMA SizeGrows ==
  ASSUME NEW S \in SUBSET Messages, NEW T \in SUBSET S, \A m \in S : text[m] \in Texts
  PROVE  Size(S) \in Nat /\ Size(T) \in Nat /\ Size(T) <= Size(S)
<1> DEFINE units(m) == {m} \X (1 .. text[m].size)
           U(R) == UNION {units(m) : m \in R}
<1>1. \A m \in S : IsFiniteSet(units(m))
  <2> SUFFICES ASSUME NEW m \in S PROVE IsFiniteSet(units(m))
    OBVIOUS
  <2>1. text[m].size \in Int
    BY HistoryAssumption
  <2>2. IsFiniteSet(1 .. text[m].size)
    BY <2>1, FS_Interval
  <2>3. IsFiniteSet({m})
    BY FS_Singleton
  <2>4. QED
    BY <2>2, <2>3, FS_Product
<1>2. IsFiniteSet({units(m) : m \in S})
  <2> DEFINE f == [m \in S |-> units(m)]
  <2>1. f \in Surjection(S, {units(m) : m \in S})
    BY DEF Surjection
  <2>2. IsFiniteSet(S)
    BY HistoryAssumption, FS_Subset
  <2>3. QED
    BY <2>1, <2>2, FS_Surjection
<1> HIDE DEF units
<1>3. IsFiniteSet(U(S))
  <2>1. \A R \in {units(m) : m \in S} : IsFiniteSet(R)
    BY <1>1
  <2>2. QED
    BY <1>2, <2>1, FS_UNION
<1>4. U(T) \in SUBSET U(S)
  OBVIOUS
<1>5. Size(S) = Cardinality(U(S)) /\ Size(T) = Cardinality(U(T))
  BY DEF Size, units
<1> HIDE DEF U
<1>6. QED
  BY <1>3, <1>4, <1>5, FS_Subset, FS_CardinalityType

LEMMA SizeOfOne ==
  ASSUME NEW m \in Messages, text[m] \in Texts
  PROVE  Size({m}) = text[m].size
<1>1. text[m].size \in Nat
  BY HistoryAssumption
<1>2. IsFiniteSet(1 .. text[m].size) /\ Cardinality(1 .. text[m].size) = text[m].size
  <2>1. \A k \in Nat : IsFiniteSet(1 .. k) /\ Cardinality(1 .. k) = IF 1 > k THEN 0 ELSE k - 1 + 1
    BY FS_Interval
  <2>2. \A k \in Nat : (IF 1 > k THEN 0 ELSE k - 1 + 1) = k
    OBVIOUS
  <2>3. QED
    BY <1>1, <2>1, <2>2
<1>3. IsFiniteSet({m}) /\ Cardinality({m}) = 1
  BY FS_Singleton
<1>4. Cardinality({m} \X (1 .. text[m].size)) = 1 * text[m].size
  BY <1>2, <1>3, FS_Product
<1>5. UNION {{n} \X (1 .. text[n].size) : n \in {m}} = {m} \X (1 .. text[m].size)
  <2>1. {{n} \X (1 .. text[n].size) : n \in {m}} = {{m} \X (1 .. text[m].size)}
    BY Zenon
  <2>2. \A R : UNION {R} = R
    OBVIOUS
  <2>3. QED
    BY <2>1, <2>2
<1>6. Size({m}) = Cardinality({m} \X (1 .. text[m].size))
  BY <1>5 DEF Size
<1>7. 1 * text[m].size = text[m].size
  BY <1>1
<1>8. QED
  BY <1>4, <1>6, <1>7

-----------------------------------------------------------------------------
(* What was written has a text.                                            *)
TextsKnown == \A m \in Messages : status[m] # "none" => text[m] \in Texts
WasStored(m) == status[m] \in {"stored", "expired"}

(* A reading is complete as far as it got: up to the cursor, or to the end *)
(* of the range once there is no next_cursor.                              *)
BegunWereStored == \A m \in begun : WasStored(m)

CursorIsInRange == call = "paging" => cursor \in Nat /\ From <= cursor

CompleteSoFar ==
  call \in {"paging", "paged"} =>
    \A m \in begun \cap Stored :
      From <= at[m] /\ at[m] <= (IF call = "paged" THEN To ELSE cursor)
         => m \in seen \cup page \/ Obstructed(m)

ReadInv == TextsKnown /\ BegunWereStored /\ CursorIsInRange /\ CompleteSoFar

\* In a page the messages that fit are closed towards the front.
LEMMA FittingClosed ==
  ASSUME TypeOK, NEW rows \in SUBSET Messages, \A m \in rows : text[m] \in Texts,
         NEW n \in Fitting(rows), NEW m \in rows, Before(m, n)
  PROVE  m \in Fitting(rows)
<1>1. {l \in rows : ~ Before(m, l)} \subseteq {l \in rows : ~ Before(n, l)}
  <2> SUFFICES ASSUME NEW l \in rows, Before(n, l) PROVE Before(m, l)
    OBVIOUS
  <2>1. n \in Messages
    BY DEF Fitting
  <2>2. QED
    BY <2>1, OrderOfQuery
<1>2. /\ Size({l \in rows : ~ Before(m, l)}) \in Nat
      /\ Size({l \in rows : ~ Before(n, l)}) \in Nat
      /\ Size({l \in rows : ~ Before(m, l)}) <= Size({l \in rows : ~ Before(n, l)})
  <2> DEFINE S == {l \in rows : ~ Before(n, l)}
             T == {l \in rows : ~ Before(m, l)}
  <2>1. S \in SUBSET Messages /\ T \in SUBSET S /\ \A l \in S : text[l] \in Texts
    BY <1>1
  <2> HIDE DEF S, T
  <2>2. Size(S) \in Nat /\ Size(T) \in Nat /\ Size(T) <= Size(S)
    BY <2>1, SizeGrows
  <2>3. QED
    BY <2>2 DEF S, T
<1>3. Cap \in Nat
  BY HistoryAssumption
<1>4. QED
  BY <1>2, <1>3 DEF Fitting

\* The first message of a page fits, unless it fills a response alone.
LEMMA FirstFits ==
  ASSUME TypeOK, NEW rows \in SUBSET Messages, NEW x \in rows, text[x] \in Texts,
         \A n \in rows : n # x => Before(x, n), text[x].size <= Cap
  PROVE  x \in Fitting(rows)
<1>1. {l \in rows : ~ Before(x, l)} = {x}
  BY OrderOfQuery
<1>2. Size({x}) <= Cap
  BY SizeOfOne
<1>3. QED
  BY <1>1, <1>2 DEF Fitting

\* A message nothing is in the way of is on the page, if the page reaches it.
LEMMA PageComplete ==
  ASSUME TypeOK, TextsKnown, NEW after \in Nat \cup {Nothing}, after # Nothing => From <= after,
         NEW limit \in Limits, NEW read, NEW rows, NEW shown,
         read = Valid(FirstOf(InRange(after), limit + 1)), rows = FirstOf(read, limit),
         shown = Fitting(rows), NextCursor(rows, shown, Cardinality(read) > limit),
         NEW m \in InRange(after), ~ Obstructed(m), cursor' = Nothing \/ at[m] <= cursor'
  PROVE  m \in shown
<1> DEFINE R == InRange(after)
           F == FirstOf(R, limit + 1)
<1>1. /\ R \in SUBSET Messages /\ F \in SUBSET R /\ read \in SUBSET F
      /\ rows \in SUBSET read /\ shown \in SUBSET rows
  BY DEF InRange, Stored, Valid, FirstOf, Fitting
<1>2. limit \in Nat /\ limit + 1 \in Nat /\ 0 < limit
  BY HistoryAssumption
<1>3. \A n \in R : status[n] = "stored" /\ text[n] \in Texts /\ at[n] \in Nat /\ From <= at[n]
  <2>1. \A n \in R : n \in Messages /\ status[n] = "stored"
    BY DEF InRange, Stored
  <2>2. \A n \in R : at[n] \in Nat /\ text[n] \in Texts
    BY <2>1, OrderOfQuery DEF TextsKnown
  <2>3. \A n \in R : From <= at[n]
    BY <2>1, <2>2, HistoryAssumption DEF InRange
  <2>4. QED
    BY <2>1, <2>2, <2>3
<1>4. /\ m \in R /\ text[m].valid /\ text[m].size <= Cap
      /\ \A n \in R : n # m /\ at[n] <= at[m] => text[n].valid /\ text[n].size <= Cap
      /\ \A n \in R : n # m => at[n] # at[m]
  <2>1. \A n \in R : text[n].size \in Nat
    BY <1>3, HistoryAssumption
  <2>2. Cap \in Nat /\ From \in Nat
    BY HistoryAssumption
  <2>3. \A n \in R : at[n] <= at[m] => at[n] \in From .. at[m]
    BY <1>3, <2>2
  <2>4. QED
    BY <1>1, <1>3, <2>1, <2>2, <2>3 DEF Obstructed
<1>5. F = FirstOf(R, limit + 1) /\ read = {n \in F : text[n].valid}
  BY DEF Valid
<1> HIDE DEF R, F
<1>6. Order
  BY Ordered
<1>7. /\ \A n \in F : m # n /\ Before(m, n) => m \in F
      /\ \A n \in rows : m \in read /\ Before(m, n) => m \in rows
      /\ \A n \in shown : m \in rows /\ Before(m, n) => m \in shown
  <2>1. \A n \in F : Before(m, n) => m \in F
    BY <1>1, <1>2, <1>4, <1>5, FirstClosed
  <2>2. \A n \in rows : m \in read /\ Before(m, n) => m \in rows
    BY <1>1, <1>2, FirstClosed
  <2>3. \A n \in shown : m \in rows /\ Before(m, n) => m \in shown
    BY <1>1, <1>3, FittingClosed
  <2>4. QED
    BY <2>1, <2>2, <2>3
<1>8. CASE \E x \in shown : at[m] <= at[x]
  <2>1. PICK x \in shown : at[m] <= at[x]
    BY <1>8
  <2>2. x = m \/ Before(m, x)
    <3>1. x \in R /\ m \in Messages /\ x \in Messages
      BY <1>1, <1>4
    <3>2. x # m => at[m] < at[x]
      BY <1>3, <1>4, <2>1, <3>1
    <3>3. QED
      BY <1>6, <3>1, <3>2 DEF Order
  <2>3. Before(m, x) => m \in shown
    <3>1. x \in F /\ x \in read /\ x \in rows /\ (Before(m, x) => m # x)
      BY <1>1, <1>6 DEF Order
    <3>2. Before(m, x) => m \in F
      BY <1>7, <3>1
    <3>3. Before(m, x) => m \in read
      BY <1>4, <1>5, <3>2
    <3>4. QED
      BY <1>7, <3>1, <3>3
  <2>4. QED
    BY <2>1, <2>2, <2>3
<1>9. CASE shown = {}
  <2>1. rows = {}
    <3> SUFFICES ASSUME rows # {} PROVE FALSE
      OBVIOUS
    <3>1. PICK x \in rows : \A n \in rows : n # x => Before(x, n)
      <4>1. rows \in SUBSET Messages
        BY <1>1
      <4>2. QED
        BY <4>1, Earliest
    <3>2. ~ (text[x].size <= Cap)
      BY <1>1, <1>3, <1>9, <3>1, FirstFits
    <3>3. x # m /\ ~ (at[x] <= at[m])
      BY <1>1, <1>4, <3>2
    <3>4. Before(m, x)
      BY <1>1, <1>3, <1>4, <1>6, <3>3 DEF Order
    <3>5. m \in rows
      BY <1>1, <1>4, <1>5, <1>7, <3>3, <3>4
    <3>6. Before(x, m)
      BY <3>1, <3>3, <3>5
    <3>7. QED
      BY <1>1, <1>4, <1>6, <3>4, <3>6 DEF Order
  <2>2. read = {}
    <3> SUFFICES ASSUME read # {} PROVE FALSE
      OBVIOUS
    <3>1. PICK n \in read : n \notin rows
      BY <2>1
    <3>2. read \in SUBSET Messages /\ limit \in Nat
      BY <1>1, <1>2
    <3>3. limit <= Cardinality(FirstOf(read, limit))
      BY <3>1, <3>2, FirstIsFull
    <3>4. Cardinality(rows) = 0
      BY <2>1, FS_EmptySet
    <3>5. QED
      BY <1>2, <3>3, <3>4
  <2>3. PICK x \in R : \A n \in R : n # x => Before(x, n)
    BY <1>1, <1>4, Earliest
  <2>4. at[x] <= at[m] /\ x \in Messages
    BY <1>1, <1>3, <1>4, <1>6, <2>3 DEF Order
  <2>5. text[x].valid
    BY <1>4, <2>3, <2>4
  <2>6. x \notin F
    BY <1>5, <2>2, <2>5
  <2>7. limit + 1 <= Cardinality(F) /\ \A n \in F : Before(n, x)
    BY <1>1, <1>2, <1>5, <2>3, <2>6, FirstIsFull
  <2>8. F = {}
    BY <1>1, <1>6, <2>3, <2>4, <2>6, <2>7 DEF Order
  <2>9. Cardinality(F) = 0
    BY <2>8, FS_EmptySet
  <2>10. QED
    BY <1>2, <2>7, <2>9
<1>10. CASE ~ (Cardinality(read) > limit) /\ shown = rows
  <2>1. read \in SUBSET Messages /\ Cardinality(read) \in Nat
    <3>1. read \in SUBSET Messages
      BY <1>1
    <3>2. QED
      BY <3>1, Counted
  <2>2. rows = read
    BY <1>2, <1>10, <2>1, FirstIsAll
  <2>3. m \in F
    <3> SUFFICES ASSUME m \notin F PROVE FALSE
      OBVIOUS
    <3>1. limit + 1 <= Cardinality(F) /\ \A n \in F : Before(n, m)
      BY <1>1, <1>2, <1>4, <1>5, FirstIsFull
    <3>2. \A n \in F : n # m /\ at[n] <= at[m]
      BY <1>1, <1>4, <1>6, <3>1 DEF Order
    <3>3. \A n \in F : text[n].valid
      BY <1>1, <1>4, <3>2
    <3>4. read = F
      BY <1>5, <3>3
    <3>5. QED
      BY <1>2, <1>10, <2>1, <3>1, <3>4
  <2>4. QED
    BY <1>4, <1>5, <1>10, <2>2, <2>3
<1>11. CASE \E x \in Last(shown) : cursor' = at[x]
  <2>1. PICK x \in Last(shown) : cursor' = at[x]
    BY <1>11
  <2>2. x \in shown /\ x \in R
    BY <1>1, <2>1 DEF Last
  <2>3. cursor' # Nothing
    BY <1>3, <2>1, <2>2, HistoryAssumption
  <2>4. QED
    BY <1>8, <2>1, <2>2, <2>3
<1>12. QED
  BY <1>9, <1>10, <1>11 DEF NextCursor

\* Logging and deleting change nothing of what was stored, but that it may
\* be gone.
LogStep ==
  /\ UNCHANGED <<call, cursor, page, seen, begun, anchor>>
  /\ \A n \in Messages :
        /\ status[n] # "none" => at'[n] = at[n] /\ text'[n] = text[n] /\ status'[n] # "none"
        /\ WasStored(n) => WasStored(n)'
        /\ WasStored(n) /\ status'[n] = "stored" => status[n] = "stored"
        /\ status'[n] # "none" /\ status[n] = "none" => text'[n] \in Texts

LEMMA LogSteps ==
  ASSUME TypeOK, NEW m \in Messages, Tick \/ Stamp(m) \/ Append(m) \/ Expire(m)
  PROVE  LogStep
<1>1. DOMAIN status = Messages /\ DOMAIN at = Messages /\ DOMAIN text = Messages
  BY DEF TypeOK
<1>2. CASE Tick
  BY <1>2 DEF Tick, logVars, LogStep, WasStored
<1>3. CASE Stamp(m)
  <2>1. PICK x \in Texts : /\ status[m] = "none"
                           /\ status' = [status EXCEPT ![m] = "stamped"]
                           /\ at' = [at EXCEPT ![m] = clock]
                           /\ text' = [text EXCEPT ![m] = x]
                           /\ UNCHANGED <<call, cursor, page, seen, begun, anchor>>
    BY <1>3 DEF Stamp
  <2>2. \A n \in Messages : n # m => /\ status'[n] = status[n] /\ at'[n] = at[n]
                                    /\ text'[n] = text[n]
    BY <1>1, <2>1
  <2>3. text'[m] = x /\ status'[m] = "stamped"
    BY <1>1, <2>1
  <2>4. QED
    BY <2>1, <2>2, <2>3 DEF LogStep, WasStored
<1>4. CASE Append(m)
  <2>1. PICK to \in {"stored", "lost"} : status' = [status EXCEPT ![m] = to]
    BY <1>4 DEF Append
  <2>2. status[m] = "stamped" /\ UNCHANGED <<at, text, call, cursor, page, seen, begun, anchor>>
    BY <1>4 DEF Append
  <2>3. \A n \in Messages : status'[n] = IF n = m THEN to ELSE status[n]
    BY <1>1, <2>1
  <2>4. QED
    BY <2>2, <2>3 DEF LogStep, WasStored
<1>5. CASE Expire(m)
  <2>1. /\ status[m] = "stored" /\ status' = [status EXCEPT ![m] = "expired"]
        /\ UNCHANGED <<at, text, call, cursor, page, seen, begun, anchor>>
    BY <1>5 DEF Expire
  <2>2. \A n \in Messages : status'[n] = IF n = m THEN "expired" ELSE status[n]
    BY <1>1, <2>1
  <2>3. QED
    BY <2>1, <2>2 DEF LogStep, WasStored
<1>6. QED
  BY <1>2, <1>3, <1>4, <1>5

\* What is in the way of a message stays there.
LEMMA ObstructionsStay ==
  ASSUME LogStep, NEW m \in Messages, WasStored(m), Obstructed(m)
  PROVE  Obstructed(m)'
<1>1. at'[m] = at[m] /\ text'[m] = text[m]
  BY DEF LogStep, WasStored
<1>2. \A n \in Messages : status[n] \in {"stored", "expired"} =>
         /\ at'[n] = at[n] /\ text'[n] = text[n] /\ status'[n] \in {"stored", "expired"}
  BY DEF LogStep, WasStored
<1>3. QED
  BY <1>1, <1>2 DEF Obstructed

LEMMA ReadInvInit == Init => ReadInv
BY DEF Init, ReadInv, TextsKnown, BegunWereStored, CursorIsInRange, CompleteSoFar

LEMMA LogStepsKeepReading ==
  ASSUME TypeOK, ReadInv, LogStep
  PROVE  ReadInv'
<1>1. begun \subseteq Messages
  BY DEF TypeOK
<1>2. TextsKnown'
  BY DEF ReadInv, TextsKnown, LogStep
<1>3. BegunWereStored'
  BY <1>1 DEF ReadInv, BegunWereStored, LogStep
<1>4. CursorIsInRange'
  BY DEF ReadInv, CursorIsInRange, LogStep
<1>5. CompleteSoFar'
  <2> SUFFICES ASSUME call \in {"paging", "paged"}, NEW m \in (begun \cap Stored)',
                      From <= at'[m], at'[m] <= IF call = "paged" THEN To ELSE cursor
               PROVE  m \in seen \cup page \/ Obstructed(m)'
    BY DEF CompleteSoFar, LogStep
  <2>1. m \in begun /\ m \in Messages /\ WasStored(m) /\ status'[m] = "stored"
    BY <1>1 DEF Stored, ReadInv, BegunWereStored, LogStep
  <2>2. m \in Stored /\ at'[m] = at[m]
    BY <2>1 DEF LogStep, WasStored, Stored
  <2>3. m \in seen \cup page \/ Obstructed(m)
    BY <2>1, <2>2 DEF ReadInv, CompleteSoFar
  <2>4. QED
    BY <2>1, <2>3, ObstructionsStay
<1>6. QED
  BY <1>2, <1>3, <1>4, <1>5 DEF ReadInv

\* A page brings the reading to its cursor, or to the end of the range.
LEMMA PagesKeepReading ==
  ASSUME TypeOK, IInv, ReadInv, FirstPage \/ NextPage
  PROVE  ReadInv'
<1>1. PICK after \in Nat \cup {Nothing} :
         /\ ShowPage(after) /\ UNCHANGED <<status, at, text>>
         /\ after # Nothing => From <= after
         /\ \/ after = Nothing /\ begun' = Stored
            \/ /\ call = "paging" /\ after = cursor /\ after \in Nat /\ after # Nothing
               /\ begun' = begun /\ seen' = seen \cup page
  <2>1. CASE FirstPage
    BY <2>1 DEF FirstPage, logVars
  <2>2. CASE NextPage
    <3>1. cursor \in Nat /\ From <= cursor /\ cursor # Nothing
      BY <2>2, HistoryAssumption DEF NextPage, ReadInv, CursorIsInRange
    <3>2. QED
      BY <2>2, <3>1 DEF NextPage, logVars
  <2>3. QED
    BY <2>1, <2>2
<1> DEFINE read(k) == Valid(FirstOf(InRange(after), k + 1))
           rows(k) == FirstOf(read(k), k)
<1>2. PICK k \in Limits :
         /\ NextCursor(rows(k), Fitting(rows(k)), Cardinality(read(k)) > k)
         /\ page' = Fitting(rows(k))
         /\ call' = IF cursor' = Nothing THEN "paged" ELSE "paging"
  BY <1>1 DEF ShowPage
<1>3. ASSUME NEW m \in InRange(after), ~ Obstructed(m), cursor' = Nothing \/ at[m] <= cursor'
      PROVE  m \in page'
  BY <1>1, <1>2, <1>3, PageComplete DEF ReadInv
<1>4. \A m \in page' : m \in InRange(after)
  BY <1>2 DEF Fitting, FirstOf, Valid
<1> HIDE DEF read, rows
<1>5. \A m \in Messages : at[m] \in Nat
  BY OrderOfQuery
<1>6. TextsKnown' /\ BegunWereStored'
  BY <1>1 DEF ReadInv, TextsKnown, BegunWereStored, WasStored, Stored
<1>7. CursorIsInRange'
  <2> SUFFICES ASSUME call' = "paging" PROVE cursor' \in Nat /\ From <= cursor'
    BY DEF CursorIsInRange
  <2>1. PICK m \in page' : at[m] = cursor' /\ cursor' \in Nat
    BY <1>1, PageShown
  <2>2. m \in Messages /\ IF after = Nothing THEN at[m] >= From ELSE at[m] > after
    BY <1>4 DEF InRange, Stored
  <2>3. QED
    BY <1>1, <1>5, <2>1, <2>2, HistoryAssumption
<1>8. CompleteSoFar'
  <2> SUFFICES ASSUME NEW m \in (begun \cap Stored)', From <= at'[m],
                      at'[m] <= (IF call' = "paged" THEN To ELSE cursor')
               PROVE  m \in seen' \cup page' \/ Obstructed(m)'
    BY DEF CompleteSoFar
  <2>1. /\ m \in begun' /\ m \in Stored /\ m \in Messages
        /\ at'[m] = at[m] /\ at[m] \in Nat
        /\ From <= at[m]
    BY <1>1, <1>5 DEF Stored
  <2>2. Obstructed(m)' <=> Obstructed(m)
    BY <1>1 DEF Obstructed
  <2>3. at[m] <= To
    <3>1. CASE call' = "paged"
      BY <2>1, <3>1
    <3>2. CASE call' = "paging"
      <4>1. PICK n \in page' : at[n] = cursor'
        BY <1>1, <3>2, PageShown
      <4>2. at[n] <= To /\ n \in Messages
        BY <1>4, <4>1 DEF InRange, Stored
      <4>3. QED
        BY <1>5, <2>1, <3>2, <4>1, <4>2, HistoryAssumption
    <3>3. QED
      BY <1>2, <3>1, <3>2
  <2>4. CASE m \in InRange(after)
    <3>1. cursor' = Nothing \/ at[m] <= cursor'
      BY <1>2, <2>1
    <3>2. QED
      BY <1>3, <2>2, <2>4, <3>1
  <2>5. CASE m \notin InRange(after)
    <3>1. after # Nothing /\ at[m] <= cursor
      BY <1>1, <2>1, <2>3, <2>5 DEF InRange
    <3>2. call = "paging" /\ m \in begun /\ seen' = seen \cup page
      BY <1>1, <2>1, <3>1
    <3>3. m \in seen \cup page \/ Obstructed(m)
      BY <2>1, <3>1, <3>2 DEF ReadInv, CompleteSoFar
    <3>4. QED
      BY <2>2, <3>2, <3>3
  <2>6. QED
    BY <2>4, <2>5
<1>9. QED
  BY <1>6, <1>7, <1>8 DEF ReadInv

LEMMA ReadInvHolds ==
  ASSUME TypeOK, IInv, ReadInv, [Next]_vars
  PROVE  ReadInv'
<1>1. CASE Tick \/ \E m \in Messages : Stamp(m) \/ Append(m) \/ Expire(m)
  <2>1. CASE Tick
    <3>1. LogStep
      BY <2>1 DEF Tick, logVars, LogStep, WasStored
    <3>2. QED
      BY <3>1, LogStepsKeepReading
  <2>2. QED
    BY <1>1, <2>1, LogSteps, LogStepsKeepReading
<1>2. CASE UNCHANGED vars
  <2>1. UNCHANGED <<status, at, text, call, cursor, page, seen, begun>>
    BY <1>2 DEF vars, logVars
  <2>2. QED
    BY <2>1 DEF ReadInv, TextsKnown, BegunWereStored, CursorIsInRange, CompleteSoFar, WasStored,
                Stored, Obstructed
<1>3. CASE Search \/ GetMessage \/ ReadBefore \/ ReadAfter
  <2>1. /\ UNCHANGED <<status, at, text>> /\ call' \notin {"paging", "paged"}
        /\ begun' \in {begun, Stored}
    BY <1>3 DEF Search, GetMessage, ReadBefore, ReadAfter, logVars
  <2>2. QED
    BY <2>1 DEF ReadInv, TextsKnown, BegunWereStored, CursorIsInRange, CompleteSoFar, WasStored,
                Stored
<1>4. QED
  BY <1>1, <1>2, <1>3, PagesKeepReading DEF Next

\* When there is no next_cursor, what was there when the reading began, and
\* still is, has been shown, but for what pages cannot get past: whatever is
\* logged late, deleted or does not validate meanwhile.
THEOREM ReadingsAreComplete == Spec => []ReadingIsComplete
<1>1. TypeOK /\ ReadInv => ReadingIsComplete
  <2> SUFFICES ASSUME TypeOK, ReadInv, call = "paged", NEW m \in begun \cap Stored,
                      at[m] \in From .. To
               PROVE  m \in seen \cup page \/ Obstructed(m)
    BY DEF ReadingIsComplete
  <2>1. From <= at[m] /\ at[m] <= To
    BY HistoryAssumption
  <2>2. QED
    BY <2>1 DEF ReadInv, CompleteSoFar
<1>2. QED
  BY <1>1, ReadInvInit, ReadInvHolds, TypeCorrect, ReadingInvariant, PTL DEF Spec

-----------------------------------------------------------------------------
(* The messages before a hit are shown without a gap once they are read,   *)
(* and whatever is dropped for the cap is dropped from the ends.           *)
HitIsShown ==
  call \in {"found", "before", "context"} =>
    anchor \in page /\ \A n \in page : WasStored(n)

OnlyTheHit == call = "found" => page = {anchor}

BeforeHasNoGap ==
  call = "before" =>
    /\ \A n \in page \ {anchor} : at[n] < at[anchor]
    /\ \A m \in Valid(begun \cap Stored), n \in page :
          at[n] < at[m] /\ at[m] < at[anchor] => m \in page

ContextInv == BegunWereStored /\ HitIsShown /\ OnlyTheHit /\ BeforeHasNoGap /\ ContextHasNoGap

\* What was stored when the reading began and still is.
LEMMA StillThere ==
  ASSUME TypeOK, BegunWereStored, LogStep, NEW m \in Valid(begun \cap Stored)'
  PROVE  m \in Valid(begun \cap Stored) /\ m \in Messages /\ at'[m] = at[m]
<1>1. m \in begun /\ m \in Messages /\ WasStored(m) /\ status'[m] = "stored"
  BY DEF TypeOK, Valid, Stored, BegunWereStored, LogStep
<1>2. status[m] = "stored" /\ at'[m] = at[m] /\ text'[m] = text[m]
  BY <1>1 DEF LogStep, WasStored
<1>3. QED
  BY <1>1, <1>2 DEF Valid, Stored

LEMMA LogStepsKeepContext ==
  ASSUME TypeOK, ContextInv, LogStep
  PROVE  ContextInv'
<1>1. begun \subseteq Messages /\ page \subseteq Messages
  BY DEF TypeOK
<1>2. BegunWereStored'
  BY <1>1 DEF ContextInv, BegunWereStored, LogStep
<1>3. HitIsShown' /\ OnlyTheHit'
  BY <1>1 DEF ContextInv, HitIsShown, OnlyTheHit, LogStep
<1>4. call \in {"found", "before", "context"} =>
        anchor \in page /\ at'[anchor] = at[anchor] /\ \A n \in page : at'[n] = at[n]
  BY <1>1 DEF ContextInv, HitIsShown, LogStep, WasStored
<1>5. \A m \in Valid(begun \cap Stored)' : m \in Valid(begun \cap Stored) /\ at'[m] = at[m]
  BY StillThere DEF ContextInv
<1>6. UNCHANGED <<call, page, anchor>>
  BY DEF LogStep
<1>7. BeforeHasNoGap'
  BY <1>4, <1>5, <1>6 DEF ContextInv, BeforeHasNoGap
<1>8. ContextHasNoGap'
  BY <1>4, <1>5, <1>6 DEF ContextInv, ContextHasNoGap
<1>9. QED
  BY <1>2, <1>3, <1>7, <1>8 DEF ContextInv

\* The messages before the hit are the last ones there were.
LEMMA ReadBeforeKeepsContext ==
  ASSUME TypeOK, ContextInv, ReadBefore
  PROVE  ContextInv'
<1> DEFINE S == {m \in Stored : at[m] < at[anchor]}
<1>1. /\ call = "found" /\ call' = "before" /\ page = {anchor}
      /\ page' = {anchor} \cup Valid(LastOf(S, AroundBefore))
      /\ UNCHANGED <<status, at, text, begun, anchor>>
  BY DEF ReadBefore, ContextInv, OnlyTheHit, Preceding, logVars
<1>2. S \in SUBSET Messages /\ anchor \in Messages /\ begun \subseteq Messages
  BY <1>1 DEF Stored, TypeOK
<1>3. \A n \in Valid(LastOf(S, AroundBefore)) :
         n \in S /\ n \in LastOf(S, AroundBefore) /\ status[n] = "stored" /\ n \in Messages
  BY DEF Valid, LastOf, Stored
<1>4. \A n \in Messages : at[n] \in Nat
  BY OrderOfQuery
<1>5. BegunWereStored' /\ OnlyTheHit'
  BY <1>1 DEF ContextInv, BegunWereStored, WasStored, OnlyTheHit
<1>6. HitIsShown'
  BY <1>1, <1>3 DEF ContextInv, HitIsShown, WasStored
<1>7. ContextHasNoGap'
  BY <1>1 DEF ContextHasNoGap
<1>8. BeforeHasNoGap'
  <2>1. \A n \in page' \ {anchor} : at[n] < at[anchor]
    BY <1>1, <1>3
  <2>2. ASSUME NEW m \in Valid(begun \cap Stored), NEW n \in page', at[n] < at[m],
               at[m] < at[anchor]
        PROVE  m \in page'
    <3>1. m \in S /\ text[m].valid /\ m \in Messages
      BY <1>2, <2>2 DEF Valid, Stored
    <3>2. n \in Valid(LastOf(S, AroundBefore)) /\ n \in Messages
      BY <1>1, <1>2, <1>3, <1>4, <2>2, <3>1
    <3>3. Before(n, m)
      BY <2>2, <3>1, <3>2, OrderOfQuery
    <3>4. m \in LastOf(S, AroundBefore)
      <4>1. n \in LastOf(S, AroundBefore) /\ AroundBefore \in Int
        BY <1>3, <3>2, HistoryAssumption
      <4> HIDE DEF S
      <4>2. QED
        BY <1>2, <3>1, <3>3, <4>1, LastClosed
    <3>5. QED
      BY <1>1, <3>1, <3>4 DEF Valid
  <2>3. Valid(begun \cap Stored)' = Valid(begun \cap Stored)
    BY <1>1 DEF Valid, Stored
  <2>4. QED
    BY <1>1, <2>1, <2>2, <2>3 DEF BeforeHasNoGap
<1>9. QED
  BY <1>5, <1>6, <1>7, <1>8 DEF ContextInv

\* The messages after the hit are the first there are, and the ends give way
\* to the cap.
LEMMA ReadAfterKeepsContext ==
  ASSUME TypeOK, ContextInv, ReadAfter
  PROVE  ContextInv'
<1> DEFINE before == page \ {anchor}
           after == Valid(Following)
           S == {m \in Stored : at[m] > at[anchor]}
<1>1. /\ call = "before" /\ call' = "context"
      /\ UNCHANGED <<status, at, text, begun, anchor>>
  BY DEF ReadAfter, logVars
<1>2. PICK b \in Int, a \in Int :
         page' = LastOf(before, b) \cup {anchor} \cup FirstOf(after, a)
  <2>1. PICK k \in Shedding(Cardinality(before), Cardinality(after)) :
           page' = LastOf(before, k[1]) \cup {anchor} \cup FirstOf(after, k[2])
    BY DEF ReadAfter
  <2>2. k \in (0 .. Cardinality(before)) \X (0 .. Cardinality(after))
    BY <2>1 DEF Shedding
  <2>3. k[1] \in Int /\ k[2] \in Int
    BY <2>2
  <2>4. QED
    BY <2>1, <2>3
<1>3. /\ anchor \in Messages /\ before \in SUBSET Messages /\ S \in SUBSET Messages
      /\ begun \subseteq Messages
  BY <1>1 DEF Stored, TypeOK
<1>4. /\ after = Valid(FirstOf(S, AroundAfter)) /\ after \in SUBSET S
      /\ \A n \in after : status[n] = "stored"
  BY DEF Following, Valid, FirstOf, Stored
<1>5. \A n \in Messages : at[n] \in Nat
  BY OrderOfQuery
<1>6. /\ \A n \in before : at[n] < at[anchor]
      /\ \A m \in Valid(begun \cap Stored), n \in page :
            at[n] < at[m] /\ at[m] < at[anchor] => m \in page
      /\ \A n \in page : WasStored(n)
  BY <1>1 DEF ContextInv, BeforeHasNoGap, HitIsShown
<1>7. LastOf(before, b) \subseteq before /\ FirstOf(after, a) \subseteq after
  BY DEF LastOf, FirstOf
<1>8. BegunWereStored' /\ OnlyTheHit' /\ BeforeHasNoGap'
  BY <1>1 DEF ContextInv, BegunWereStored, WasStored, OnlyTheHit, BeforeHasNoGap
<1>9. HitIsShown'
  <2>1. anchor \in page
    BY <1>1 DEF ContextInv, HitIsShown
  <2>2. \A n \in page' : WasStored(n)
    BY <1>2, <1>4, <1>6, <1>7, <2>1 DEF WasStored
  <2>3. QED
    BY <1>1, <1>2, <2>2 DEF HitIsShown, WasStored
<1>10. ASSUME NEW m \in Valid(begun \cap Stored), NEW n \in page', NEW o \in page',
              at[n] < at[m], at[m] < at[o], at[m] # at[anchor]
       PROVE  m \in page'
  <2>1. m \in Messages /\ m \in Stored /\ text[m].valid /\ m # anchor
    BY <1>3, <1>10 DEF Valid
  <2>2. CASE at[m] < at[anchor]
    <3>1. n \in LastOf(before, b) /\ n \in before /\ n \in Messages
      <4>1. n # anchor
        BY <1>3, <1>5, <1>10, <2>1, <2>2
      <4>2. n \notin after
        BY <1>3, <1>4, <1>5, <1>10, <2>1, <2>2
      <4>3. QED
        BY <1>2, <1>3, <1>7, <4>1, <4>2
    <3>2. m \in before
      BY <1>6, <1>10, <2>1, <2>2, <3>1
    <3>3. Before(n, m)
      BY <1>10, <2>1, <3>1, OrderOfQuery
    <3> HIDE DEF before
    <3>4. m \in LastOf(before, b)
      BY <1>3, <3>1, <3>2, <3>3, LastClosed
    <3>5. QED
      BY <1>2, <3>4
  <2>3. CASE at[anchor] < at[m]
    <3>1. o \in FirstOf(after, a) /\ o \in after /\ o \in Messages
      <4>1. o # anchor
        BY <1>3, <1>5, <1>10, <2>1, <2>3
      <4>2. o \notin before
        BY <1>3, <1>5, <1>6, <1>10, <2>1, <2>3
      <4>3. QED
        BY <1>2, <1>3, <1>4, <1>7, <4>1, <4>2
    <3>2. Before(m, o)
      BY <1>10, <2>1, <3>1, OrderOfQuery
    <3>3. m \in S /\ o \in FirstOf(S, AroundAfter) /\ AroundAfter \in Int
      BY <1>4, <2>1, <2>3, <3>1, HistoryAssumption DEF Valid
    <3> HIDE DEF S, after
    <3>4. m \in FirstOf(S, AroundAfter)
      BY <1>3, <3>2, <3>3, FirstClosed
    <3>5. m \in after /\ after \in SUBSET Messages
      BY <1>3, <1>4, <2>1, <3>4 DEF Valid
    <3>6. m \in FirstOf(after, a)
      BY <1>2, <3>1, <3>2, <3>5, FirstClosed
    <3>7. QED
      BY <1>2, <3>6
  <2>4. QED
    BY <1>3, <1>5, <1>10, <2>1, <2>2, <2>3
<1>11. ContextHasNoGap'
  <2>1. Valid(begun \cap Stored)' = Valid(begun \cap Stored)
    BY <1>1 DEF Valid, Stored
  <2>2. QED
    BY <1>1, <1>2, <1>10, <2>1 DEF ContextHasNoGap
<1>12. QED
  BY <1>8, <1>9, <1>11 DEF ContextInv

LEMMA ContextInvHolds ==
  ASSUME TypeOK, ContextInv, [Next]_vars
  PROVE  ContextInv'
<1>1. CASE Tick \/ \E m \in Messages : Stamp(m) \/ Append(m) \/ Expire(m)
  <2>1. CASE Tick
    <3>1. LogStep
      BY <2>1 DEF Tick, logVars, LogStep, WasStored
    <3>2. QED
      BY <3>1, LogStepsKeepContext
  <2>2. QED
    BY <1>1, <2>1, LogSteps, LogStepsKeepContext
<1>2. CASE UNCHANGED vars
  <2>1. UNCHANGED <<status, at, text, call, page, begun, anchor>>
    BY <1>2 DEF vars, logVars
  <2>2. QED
    BY <2>1 DEF ContextInv, BegunWereStored, HitIsShown, OnlyTheHit, BeforeHasNoGap,
                ContextHasNoGap, WasStored, Valid, Stored
<1>3. CASE FirstPage \/ NextPage
  <2>1. UNCHANGED <<status, at, text>> /\ begun' \in {begun, Stored}
    BY <1>3 DEF FirstPage, NextPage, logVars
  <2>2. call' \in {"paging", "paged"}
    BY <1>3 DEF FirstPage, NextPage, ShowPage
  <2>3. QED
    BY <2>1, <2>2 DEF ContextInv, BegunWereStored, HitIsShown, OnlyTheHit, BeforeHasNoGap,
                      ContextHasNoGap, WasStored, Stored
<1>4. CASE Search
  BY <1>4 DEF Search, logVars, ContextInv, BegunWereStored, HitIsShown, OnlyTheHit,
              BeforeHasNoGap, ContextHasNoGap, WasStored
<1>5. CASE GetMessage
  <2>1. /\ UNCHANGED <<status, at, text>> /\ begun' = Stored
        /\ \/ \E m \in Stored : call' = "found" /\ anchor' = m /\ page' = {m}
           \/ call' = "idle"
    BY <1>5 DEF GetMessage, logVars
  <2>2. QED
    BY <2>1 DEF ContextInv, BegunWereStored, HitIsShown, OnlyTheHit, BeforeHasNoGap,
                ContextHasNoGap, WasStored, Stored
<1>6. QED
  BY <1>1, <1>2, <1>3, <1>4, <1>5, ReadBeforeKeepsContext, ReadAfterKeepsContext DEF Next

\* What get_context shows has no gap: of what was there throughout, nothing
\* between two messages it shows is left out, however many are dropped for
\* the cap and whatever is logged or deleted between its three reads.
THEOREM ContextsHaveNoGap == Spec => []ContextHasNoGap
<1>1. Init => ContextInv
  BY DEF Init, ContextInv, BegunWereStored, HitIsShown, OnlyTheHit, BeforeHasNoGap,
         ContextHasNoGap
<1>2. ContextInv => ContextHasNoGap
  BY DEF ContextInv
<1>3. QED
  BY <1>1, <1>2, ContextInvHolds, TypeCorrect, PTL DEF Spec
=============================================================================
