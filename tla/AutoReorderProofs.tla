------------------------- MODULE AutoReorderProofs -------------------------
(***************************************************************************)
(* Proofs about AutoReorder, for any products, managers, number of         *)
(* attempts and length of the series.                                      *)
(*                                                                         *)
(* Nothing locks the orders while an attempt is between its look for an    *)
(* open order and its insert.  What protects it is the number: it is one   *)
(* past the series, and whoever inserts in between takes it.               *)
(***************************************************************************)
EXTENDS AutoReorder, FiniteSetTheorems, TLAPS

Count == Cardinality(Placed)

\* The series has no gap, and only the tests' world places orders.
InSeries ==
  /\ Placed = 1 .. Count
  /\ Placed # {} => asTested

\* A number somebody picked for a product is at most one past the series.  While
\* it is that one, nothing was placed since the look for an open order, so the
\* product still has none; below it, somebody placed an order and it is taken.
Fresh(p, n) ==
  /\ n \in 1 .. Count + 1
  /\ order[n] = None => ~Ordered(p)

\* The attempt a workflow waits for, and one that was given up.
AttemptOK(p) ==
  /\ due[p] <= Count
  /\ pc[p] # "idle" => asTested
  /\ pc[p] \in {"idle", "create"} => number[p] = 0
  /\ pc[p] = "insert" => Fresh(p, number[p]) /\ due[p] < number[p]
LateOK(a) ==
  late[a] # None =>
    asTested /\ (late[a].number # 0 => Fresh(late[a].product, late[a].number))

\* Nobody is told of an order before it is placed.  While an order's emails are
\* sent, nobody was written to oftener than there were attempts so far, whoever is
\* still to be written to was not in this one, and unless an email bounced, not
\* at all.
MailOK(n) ==
  /\ order[n] = None => n \notin mailing /\ \A m \in Managers : told[n][m] = 0
  /\ n \notin mailing => cancelled[n] = 0
  /\ n \in mailing =>
       /\ cancelled[n] < Attempts
       /\ \A m \in Managers : told[n][m] <= cancelled[n] + 1
       /\ \A m \in untold[n] : /\ told[n][m] <= cancelled[n]
                               /\ n \notin bounced => told[n][m] = 0
  /\ \A m \in Managers : told[n][m] <= Attempts /\ (told[n][m] > 1 => n \in bounced)

IInv ==
  /\ TypeOK
  /\ InSeries /\ OneSubmitted
  /\ \A p \in Products : AttemptOK(p)
  /\ \A a \in Strays : LateOK(a)
  /\ \A n \in Numbers : MailOK(n)

-----------------------------------------------------------------------------
(* The series. *)

\* A placed order is a record, never None.
LEMMA OrderIsRecord ==
  ASSUME TypeOK, NEW n \in Numbers
  PROVE  /\ None \notin Order
         /\ order[n] # None => order[n] \in Order
BY NoneAssumption DEF TypeOK, Order

\* What an insert writes is such a record.
LEMMA NewOrder ==
  ASSUME NEW p \in Products
  PROVE  [product |-> p, submitted |-> TRUE] \in Order \ {None}
<1>1. [product |-> p, submitted |-> TRUE] \in Order
  BY DEF Order
<1> QED BY <1>1, NoneAssumption DEF Order

\* The count of the series is its last number, which is what
\* generate_auto_po_number looks for.
LEMMA SeriesFacts ==
  ASSUME TypeOK, InSeries
  PROVE  /\ Count \in 0 .. LastNumber
         /\ Top = Count
         /\ \A n \in Numbers : order[n] = None <=> n > Count
<1>1. IsFiniteSet(Numbers) /\ Cardinality(Numbers) = LastNumber
  BY NumbersAssumption, FS_Interval DEF Numbers
<1>2. Placed \subseteq Numbers
  BY DEF Placed
<1>3. Count \in Nat /\ Count <= LastNumber
  BY <1>1, <1>2, FS_Subset, FS_CardinalityType DEF Count
<1>4. ASSUME NEW n \in Numbers PROVE order[n] = None <=> n > Count
  <2>1. n \in Placed <=> n <= Count
    BY <1>3 DEF InSeries, Numbers
  <2>2. n \in Nat
    BY DEF Numbers
  <2> QED BY <1>3, <2>1, <2>2 DEF Placed
<1>5. Top = Count
  <2> DEFINE S == (1 .. Count) \cup {0}
  <2>1. Count \in S /\ \A y \in S : Count >= y
    BY <1>3
  <2>2. \A x \in S : (\A y \in S : x >= y) => x = Count
    BY <1>3
  <2>3. Max(S) = Count
    BY <2>1, <2>2 DEF Max
  <2> QED BY <2>3 DEF Top, InSeries
<1> QED BY <1>3, <1>4, <1>5, NumbersAssumption

\* One more order at the end of the series.
LEMMA SeriesExtends ==
  ASSUME TypeOK, InSeries,
         Placed' = Placed \cup {Count + 1}
  PROVE  Count' = Count + 1 /\ Placed' = 1 .. Count'
<1>1. Count \in Nat /\ Placed = 1 .. Count
  BY SeriesFacts DEF InSeries
<1>2. Placed' = 1 .. Count + 1
  BY <1>1
<1>3. Cardinality(1 .. Count + 1) = Count + 1
  BY <1>1, FS_Interval
<1> QED BY <1>2, <1>3 DEF Count

-----------------------------------------------------------------------------
(* What steps do to the orders: they place one at the end of the series, move  *)
(* one on, or leave them alone.                                                *)

\* An insert that succeeds takes the next number of the series.
LEMMA PlaceNext ==
  ASSUME IInv, NEW p \in Products, NEW n \in Numbers, Fresh(p, n), Place(p, n)
  PROVE  n = Count + 1 /\ ~Ordered(p)
<1>1. TypeOK /\ InSeries /\ order[n] = None
  BY DEF IInv, Place
<1>2. n \in 1 .. Count + 1 /\ ~Ordered(p)
  BY <1>1 DEF Fresh
<1>3. Count \in 0 .. LastNumber /\ \A k \in Numbers : order[k] = None <=> k > Count
  BY <1>1, SeriesFacts
<1> QED BY <1>1, <1>2, <1>3

\* Whoever inserts, an attempt waited for or one given up, has such a number.
LEMMA InsertsFresh ==
  ASSUME IInv
  PROVE  /\ \A p \in Products : pc[p] = "insert" =>
              asTested /\ number[p] \in Numbers /\ Fresh(p, number[p])
         /\ \A a \in Strays : late[a] # None =>
              /\ late[a] \in Attempt /\ late[a].product \in Products /\ asTested
              /\ late[a].number # 0 =>
                   late[a].number \in Numbers /\ Fresh(late[a].product, late[a].number)
<1>1. TypeOK /\ Count \in 0 .. LastNumber
  BY SeriesFacts DEF IInv
<1>2. ASSUME NEW p \in Products, pc[p] = "insert"
      PROVE  asTested /\ number[p] \in Numbers /\ Fresh(p, number[p])
  <2>1. asTested /\ Fresh(p, number[p])
    BY <1>2 DEF IInv, AttemptOK
  <2> QED BY <1>1, <2>1 DEF Fresh, TypeOK
<1>3. ASSUME NEW a \in Strays, late[a] # None
      PROVE  /\ late[a] \in Attempt /\ late[a].product \in Products /\ asTested
             /\ late[a].number # 0 =>
                  late[a].number \in Numbers /\ Fresh(late[a].product, late[a].number)
  <2>1. late[a] \in Attempt
    BY <1>1, <1>3 DEF TypeOK
  <2>2. late[a].product \in Products /\ late[a].number \in Numbers \cup {0}
    BY <2>1 DEF Attempt
  <2> QED BY <1>3, <2>1, <2>2 DEF IInv, LateOK
<1> QED BY <1>2, <1>3

\* Whatever a step is, it changes orders in one of these two ways, if any.
LEMMA OrderSteps ==
  ASSUME IInv, [Next]_vars
  PROVE  \/ order' = order
         \/ \E n \in Numbers : MoveOn(n)
         \/ asTested /\ \E p \in Products, n \in Numbers : Fresh(p, n) /\ Place(p, n)
<1>1. CASE \/ Start \/ (\E ps \in SUBSET Products : ListEligible(ps)) \/ RunEnds
           \/ (\E p \in Products : ChangeUsable(p)) \/ UNCHANGED vars
  BY <1>1 DEF Start, ListEligible, RunEnds, ChangeUsable, vars
<1>2. ASSUME NEW p \in Products, Process(p)
      PROVE  order' = order \/ (pc[p] = "insert" /\ Place(p, number[p]))
  BY <1>2 DEF Process, SkipUnusable, SkipOrdered, PickNumber, Created, NumberTaken,
              AttemptFails, CommitLost, TimesOut, MailDone
<1>3. ASSUME NEW a \in Strays, LatePick(a) \/ LateInsert(a) \/ LateEnds(a)
      PROVE  \/ order' = order
             \/ /\ late[a] # None /\ late[a].number # 0
                /\ Place(late[a].product, late[a].number)
  BY <1>3 DEF LatePick, LateInsert, LateEnds
<1>4. ASSUME NEW n \in Numbers, Mail(n) PROVE order' = order
  BY <1>4 DEF Mail, ReadCancelled, LogCancelled, MailEnds, Tell
<1> QED BY <1>1, <1>2, <1>3, <1>4, InsertsFresh DEF Next, Step

\* The world the code runs in is chosen once.
LEMMA WorldFixed == ASSUME [Next]_vars PROVE asTested' = asTested
<1>1. ASSUME NEW p \in Products, Process(p) PROVE asTested' = asTested
  BY <1>1 DEF Process, SkipUnusable, SkipOrdered, PickNumber, Created, NumberTaken,
              AttemptFails, CommitLost, TimesOut, MailDone
<1>2. ASSUME NEW n \in Numbers, Mail(n) PROVE asTested' = asTested
  BY <1>2 DEF Mail, ReadCancelled, LogCancelled, MailEnds, Tell
<1> QED BY <1>1, <1>2 DEF Next, Step, Start, ListEligible, RunEnds, MoveOn, ChangeUsable,
            LatePick, LateInsert, LateEnds, vars

\* Orders are never undone, the series stays without a gap and a product never
\* gets a second open order; only an insert of its own opens one for a product.
LEMMA OrdersGrow ==
  ASSUME IInv, [Next]_vars
  PROVE  /\ InSeries' /\ OneSubmitted'
         /\ Count' >= Count
         /\ \A n \in Numbers : order[n] # None =>
              order'[n] # None /\ order'[n].product = order[n].product
         /\ \A p \in Products : Ordered(p)' =>
              Ordered(p) \/ \E n \in Numbers : Fresh(p, n) /\ Place(p, n)
<1>1. TypeOK /\ InSeries /\ OneSubmitted /\ Count \in 0 .. LastNumber
  BY SeriesFacts DEF IInv
<1>2. asTested' = asTested
  BY WorldFixed
<1>3. CASE order' = order
  <2>1. Placed' = Placed /\ Count' = Count
    BY <1>3 DEF Placed, Count
  <2>2. InSeries' /\ OneSubmitted'
    BY <1>1, <1>2, <1>3, <2>1 DEF InSeries, OneSubmitted
  <2>3. \A p \in Products : Ordered(p)' => Ordered(p)
    BY <1>3 DEF Ordered
  <2>4. Count' >= Count
    BY <1>1, <2>1
  <2> QED BY <1>3, <2>2, <2>3, <2>4
<1>4. ASSUME NEW n \in Numbers, MoveOn(n)
      PROVE  /\ InSeries' /\ OneSubmitted'
             /\ Count' >= Count
             /\ \A k \in Numbers : order[k] # None =>
                  order'[k] # None /\ order'[k].product = order[k].product
             /\ \A p \in Products : Ordered(p)' => Ordered(p)
  <2>1. /\ order[n] # None /\ order[n] \in Order
        /\ order' = [order EXCEPT ![n] = [@ EXCEPT !.submitted = FALSE]]
    BY <1>1, <1>4, OrderIsRecord DEF MoveOn
  <2>2. /\ order'[n] \in Order /\ order'[n] # None
        /\ order'[n].product = order[n].product /\ ~order'[n].submitted
    BY <1>1, <2>1, OrderIsRecord DEF TypeOK, Order
  <2>3. \A k \in Numbers : k # n => order'[k] = order[k]
    BY <1>1, <2>1 DEF TypeOK
  <2>4. Placed' = Placed /\ Count' = Count
    <3>1. Placed' = Placed
      BY <2>1, <2>2, <2>3 DEF Placed
    <3> QED BY <3>1 DEF Count
  <2>5. OneSubmitted'
    <3> SUFFICES ASSUME NEW a \in Numbers, NEW b \in Numbers, order'[a] # None
                 PROVE  asTested' /\ (order'[a].submitted /\ order'[a] = order'[b] => a = b)
      BY DEF OneSubmitted
    <3>1. asTested' = asTested /\ order[a] # None
      BY <1>2, <2>1, <2>3
    <3>2. asTested /\ (order[a].submitted /\ order[a] = order[b] => a = b)
      BY <1>1, <3>1 DEF OneSubmitted
    <3>3. CASE a = n \/ b = n
      BY <2>2, <3>1, <3>2, <3>3
    <3>4. CASE a # n /\ b # n
      BY <2>3, <3>1, <3>2, <3>4
    <3> QED BY <3>3, <3>4
  <2>6. \A p \in Products : Ordered(p)' => Ordered(p)
    BY <2>2, <2>3 DEF Ordered
  <2> QED BY <1>1, <1>2, <2>2, <2>3, <2>4, <2>5, <2>6 DEF InSeries
<1>5. ASSUME asTested, NEW p \in Products, NEW n \in Numbers, Fresh(p, n), Place(p, n)
      PROVE  /\ InSeries' /\ OneSubmitted'
             /\ Count' >= Count
             /\ \A k \in Numbers : order[k] # None =>
                  order'[k] # None /\ order'[k].product = order[k].product
             /\ \A q \in Products : Ordered(q)' => Ordered(q) \/ q = p
  <2> DEFINE new == [product |-> p, submitted |-> TRUE]
  <2>1. /\ n = Count + 1 /\ ~Ordered(p) /\ asTested
        /\ order' = [order EXCEPT ![n] = new]
    BY <1>5, PlaceNext DEF Place
  <2>2. order[n] = None /\ new # None
    <3>1. n > Count
      BY <1>1, <2>1
    <3> QED BY <1>1, <2>1, <3>1, NewOrder, SeriesFacts
  <2>3. order'[n] = new /\ \A k \in Numbers : k # n => order'[k] = order[k]
    BY <1>1, <2>1 DEF TypeOK
  <2>4. InSeries' /\ Count' = Count + 1
    <3>1. Placed' = Placed \cup {n}
      BY <2>1, <2>2, <2>3 DEF Placed
    <3> QED BY <1>1, <1>2, <2>1, <3>1, SeriesExtends DEF InSeries
  <2>5. \A k \in Numbers : order[k] # new
    BY <2>1 DEF Ordered
  <2>6. OneSubmitted'
    <3>1. ASSUME NEW a \in Numbers, NEW b \in Numbers,
                 order'[a] # None, order'[a].submitted, order'[a] = order'[b]
          PROVE  a = b
      <4>1. CASE a = n \/ b = n
        BY <2>3, <2>5, <3>1, <4>1
      <4>2. CASE a # n /\ b # n
        BY <1>1, <2>3, <3>1, <4>2 DEF OneSubmitted
      <4> QED BY <4>1, <4>2
    <3> QED BY <1>2, <2>1, <3>1 DEF OneSubmitted
  <2>7. \A q \in Products : Ordered(q)' => Ordered(q) \/ q = p
    BY <2>3 DEF Ordered
  <2> QED BY <1>1, <2>2, <2>3, <2>4, <2>6, <2>7
<1> QED BY <1>3, <1>4, <1>5, OrderSteps

-----------------------------------------------------------------------------
(* The attempts. *)

\* The counts stay natural numbers, and the new one is no smaller.
LEMMA CountGrows ==
  ASSUME IInv, [Next]_vars
  PROVE  Count \in Nat /\ Count' \in Nat /\ Count' >= Count
<1>1. IsFiniteSet(Numbers)
  BY NumbersAssumption, FS_Interval DEF Numbers
<1>2. Placed' \subseteq Numbers
  BY DEF Placed
<1>3. Count' \in Nat
  BY <1>1, <1>2, FS_Subset, FS_CardinalityType DEF Count
<1> QED BY <1>3, OrdersGrow, SeriesFacts DEF IInv

\* What others do leaves a picked number as it was: if they placed an order, it is
\* taken and it no longer matters that the attempt saw none.
LEMMA FreshKept ==
  ASSUME IInv, [Next]_vars, NEW p \in Products, NEW n \in Numbers, Fresh(p, n)
  PROVE  Fresh(p, n)'
<1>1. TypeOK /\ Count \in Nat /\ Count' \in Nat /\ Count' >= Count
  BY CountGrows DEF IInv
<1>2. n \in 1 .. Count' + 1
  <2>1. n \in 1 .. Count + 1
    BY DEF Fresh
  <2>2. \A c, d \in Nat : d >= c /\ n \in 1 .. c + 1 => n \in 1 .. d + 1
    OBVIOUS
  <2> QED BY <1>1, <2>1, <2>2
<1>3. ASSUME order'[n] = None, Ordered(p)' PROVE FALSE
  <2>1. order[n] = None /\ ~Ordered(p)
    BY <1>3, OrdersGrow DEF Fresh
  <2>2. PICK k \in Numbers : Fresh(p, k) /\ Place(p, k)
    BY <1>3, <2>1, OrdersGrow
  <2>3. k = Count + 1
    BY <2>2, PlaceNext
  <2>4. n = Count + 1
    <3>1. n > Count
      BY <2>1, SeriesFacts DEF IInv
    <3> QED BY <1>1, <3>1 DEF Fresh, Numbers
  <2>5. order'[n] = [product |-> p, submitted |-> TRUE]
    BY <1>1, <2>2, <2>3, <2>4 DEF Place, TypeOK
  <2> QED BY <1>3, <2>5, NewOrder
<1> QED BY <1>2, <1>3 DEF Fresh

\* A number picked now is one past the series, for a product without an open order.
LEMMA PickFresh ==
  ASSUME IInv, NEW p \in Products, ~Ordered(p), order' = order, NEW n, n = Top + 1
  PROVE  Fresh(p, n)'
<1>1. Top = Count /\ Count \in Nat
  BY SeriesFacts DEF IInv
<1>2. Count' = Count /\ ~Ordered(p)'
  BY DEF Count, Placed, Ordered
<1>3. n \in 1 .. Count' + 1
  BY <1>1, <1>2
<1> QED BY <1>2, <1>3 DEF Fresh

\* An attempt nobody moves, and one that leaves the insert for good or to begin
\* again, with no more due.
LEMMA AttemptKept ==
  ASSUME IInv, [Next]_vars, NEW p \in Products, due'[p] = due[p],
         \/ pc'[p] = pc[p] /\ number'[p] = number[p]
         \/ pc[p] # "idle" /\ pc'[p] \in {"idle", "create"} /\ number'[p] = 0
         \/ pc[p] # "idle" /\ pc'[p] = "mail"
  PROVE  AttemptOK(p)'
<1>1. /\ TypeOK /\ AttemptOK(p) /\ asTested' = asTested
      /\ Count \in Nat /\ Count' \in Nat /\ Count' >= Count
  BY WorldFixed, CountGrows DEF IInv
<1>2. /\ due'[p] <= Count' /\ (pc'[p] # "idle" => asTested')
      /\ pc'[p] \in {"idle", "create"} => number'[p] = 0
  BY <1>1 DEF AttemptOK, TypeOK
<1>3. CASE pc'[p] # "insert"
  BY <1>2, <1>3 DEF AttemptOK
<1>4. CASE pc'[p] = "insert"
  <2>1. pc[p] = "insert" /\ number'[p] = number[p]
    BY <1>4
  <2>2. PICK n \in Numbers : number[p] = n /\ Fresh(p, n)
    BY <2>1, InsertsFresh
  <2>3. Fresh(p, n)'
    BY <2>2, FreshKept
  <2>4. due'[p] < number'[p]
    BY <1>1, <2>1 DEF AttemptOK
  <2> QED BY <1>2, <2>1, <2>2, <2>3, <2>4 DEF AttemptOK, Fresh
<1> QED BY <1>3, <1>4

\* The listing begins the creations of its products anew.
LEMMA ListingKeepsAttempts ==
  ASSUME IInv, NEW ps \in SUBSET Products, ListEligible(ps), NEW p \in Products
  PROVE  AttemptOK(p)'
<1>1. Next /\ TypeOK
  BY DEF Next, Step, IInv
<1>2. CASE p \in ps
  <2>1. pc'[p] = "create" /\ due'[p] = Count /\ asTested' /\ number' = number /\ pc[p] = "idle"
    BY <1>2 DEF ListEligible, Count
  <2>2. number[p] = 0
    BY <2>1 DEF IInv, AttemptOK
  <2> QED BY <1>1, <2>1, <2>2, CountGrows DEF AttemptOK
<1>3. CASE p \notin ps
  <2>1. pc'[p] = pc[p] /\ number'[p] = number[p] /\ due'[p] = due[p]
    BY <1>1, <1>3 DEF ListEligible, TypeOK
  <2> QED BY <1>1, <2>1, AttemptKept
<1> QED BY <1>2, <1>3

\* The attempt that picks a number.
LEMMA PickingOK ==
  ASSUME IInv, NEW p \in Products, PickNumber(p)
  PROVE  AttemptOK(p)'
<1>1. TypeOK /\ AttemptOK(p) /\ Top = Count /\ Count \in Nat
  BY SeriesFacts DEF IInv
<1>2. /\ pc[p] = "create" /\ pc'[p] = "insert" /\ number'[p] = Top + 1
      /\ due' = due /\ asTested' = asTested /\ order' = order /\ ~Ordered(p)
  BY <1>1 DEF PickNumber, TypeOK
<1>3. Count' = Count
  BY <1>2 DEF Count, Placed
<1>4. asTested /\ due[p] <= Count /\ due[p] \in Nat
  BY <1>1, <1>2 DEF AttemptOK, TypeOK
<1>5. PICK n \in Nat : n = Top + 1
  BY <1>1
<1>6. Fresh(p, n)'
  BY <1>2, <1>5, PickFresh
<1>7. due'[p] < number'[p]
  BY <1>1, <1>2, <1>4
<1> QED BY <1>2, <1>3, <1>4, <1>5, <1>6, <1>7 DEF AttemptOK, Fresh

\* A number is found taken only when an order was placed since it was picked.
LEMMA TakenOK ==
  ASSUME IInv, NEW p \in Products, NumberTaken(p)
  PROVE  AttemptOK(p)'
<1>1. TypeOK /\ AttemptOK(p) /\ InSeries /\ Count \in Nat
  BY SeriesFacts DEF IInv
<1>2. /\ pc[p] = "insert" /\ pc'[p] \in {"create", "idle"} /\ number'[p] = 0
      /\ due'[p] = due[p] + 1 /\ asTested' = asTested
      /\ order' = order /\ order[number[p]] # None
  BY <1>1 DEF NumberTaken, Repeat, Finish, TypeOK
<1>3. /\ number[p] \in Numbers /\ due[p] < number[p] /\ asTested
      /\ due[p] \in Nat
  BY <1>1, <1>2, InsertsFresh DEF AttemptOK, TypeOK
<1>4. number[p] <= Count
  <2>1. ~(number[p] > Count)
    BY <1>1, <1>2, <1>3, SeriesFacts
  <2> QED BY <1>1, <1>3, <2>1 DEF Numbers
<1>5. due'[p] <= Count'
  <2>1. Count' = Count
    BY <1>2 DEF Count, Placed
  <2> QED BY <1>1, <1>2, <1>3, <1>4, <2>1 DEF Numbers
<1> QED BY <1>2, <1>3, <1>5 DEF AttemptOK

\* Every step keeps what is known of every attempt a workflow waits for.
LEMMA AttemptsOK ==
  ASSUME IInv, [Next]_vars, NEW p \in Products
  PROVE  AttemptOK(p)'
<1>0. TypeOK
  BY DEF IInv
<1>1. CASE UNCHANGED <<pc, number, due>>
  BY <1>1, AttemptKept
<1>2. ASSUME Process(p) PROVE AttemptOK(p)'
  <2>1. CASE PickNumber(p)
    BY <2>1, PickingOK
  <2>2. CASE NumberTaken(p)
    BY <2>2, TakenOK
  <2>3. CASE \/ SkipUnusable(p) \/ SkipOrdered(p) \/ Created(p) \/ AttemptFails(p)
             \/ CommitLost(p) \/ TimesOut(p) \/ MailDone(p)
    <3>1. /\ pc[p] # "idle" /\ due'[p] = due[p]
          /\ \/ pc'[p] \in {"idle", "create"} /\ number'[p] = 0
             \/ pc'[p] = "mail"
      BY <1>0, <2>3 DEF SkipUnusable, SkipOrdered, Created, AttemptFails, CommitLost, TimesOut,
                  MailDone, Finish, Repeat, TypeOK
    <3> QED BY <3>1, AttemptKept
  <2> QED BY <1>2, <2>1, <2>2, <2>3 DEF Process
<1>3. ASSUME NEW q \in Products, q # p, Process(q) PROVE AttemptOK(p)'
  <2>1. pc'[p] = pc[p] /\ number'[p] = number[p] /\ due'[p] = due[p]
    BY <1>0, <1>3 DEF Process, SkipUnusable, SkipOrdered, PickNumber, Created, NumberTaken,
          AttemptFails, CommitLost, TimesOut, MailDone, Finish, Repeat, TypeOK
  <2> QED BY <2>1, AttemptKept
<1>4. CASE \/ Start \/ RunEnds \/ UNCHANGED vars
           \/ \E n \in Numbers : MoveOn(n) \/ Mail(n)
           \/ \E q \in Products : ChangeUsable(q)
           \/ \E a \in Strays : LatePick(a) \/ LateInsert(a) \/ LateEnds(a)
  <2>1. UNCHANGED <<pc, number, due>>
    BY <1>4 DEF Start, RunEnds, MoveOn, ChangeUsable, Mail, ReadCancelled, LogCancelled, MailEnds,
                Tell, LatePick, LateInsert, LateEnds, vars, work
  <2> QED BY <1>1, <2>1
<1> QED BY <1>2, <1>3, <1>4, ListingKeepsAttempts DEF Next, Step

\* An attempt given up that nobody moves.
LEMMA StrayKept ==
  ASSUME IInv, [Next]_vars, NEW a \in Strays, late'[a] = late[a]
  PROVE  LateOK(a)'
<1>1. CASE late[a] = None
  BY <1>1 DEF LateOK
<1>2. CASE late[a] # None
  <2>1. PICK q \in Products, n \in Numbers \cup {0} :
          /\ late[a].product = q /\ late[a].number = n /\ asTested
          /\ n # 0 => n \in Numbers /\ Fresh(q, n)
    BY <1>2, InsertsFresh DEF Attempt
  <2>2. n # 0 => Fresh(q, n)'
    BY <2>1, FreshKept
  <2> QED BY <2>1, <2>2, WorldFixed DEF LateOK, Fresh, Ordered
<1> QED BY <1>1, <1>2

\* An attempt given up that becomes another: what its number must be.
LEMMA StrayMoves ==
  ASSUME [Next]_vars, asTested, NEW a \in Strays, NEW q \in Products, NEW n,
         late'[a].product = q, late'[a].number = n, n # 0 => Fresh(q, n)'
  PROVE  LateOK(a)'
BY WorldFixed DEF LateOK, Fresh, Ordered

\* Every step keeps what is known of every attempt given up: one that is given up
\* had picked its number well, and one that looks on picks its number well.
LEMMA StraysOK ==
  ASSUME IInv, [Next]_vars, NEW a \in Strays
  PROVE  LateOK(a)'
<1>0. TypeOK
  BY DEF IInv
<1>1. ASSUME NEW p \in Products, TimesOut(p) PROVE LateOK(a)'
  <2>1. CASE late'[a] = late[a]
    BY <2>1, StrayKept
  <2>2. CASE late'[a] # late[a]
    <3>1. /\ pc[p] \in {"create", "insert"} /\ pc[p] # "idle"
          /\ late'[a] = [product |-> p, number |-> number[p]]
      BY <1>0, <1>1, <2>2 DEF TimesOut, TypeOK
    <3>2. asTested
      BY <3>1 DEF IInv, AttemptOK
    <3>3. PICK n \in Numbers \cup {0} : number[p] = n
      BY <1>0 DEF TypeOK
    <3>4. n # 0 => Fresh(p, n)
      BY <3>1, <3>3, InsertsFresh DEF IInv, AttemptOK
    <3>5. n # 0 => Fresh(p, n)'
      BY <3>3, <3>4, FreshKept
    <3> QED BY <3>1, <3>2, <3>3, <3>5, StrayMoves
  <2> QED BY <2>1, <2>2
<1>2. ASSUME LatePick(a) PROVE LateOK(a)'
  <2>1. PICK q \in Products : late[a].product = q /\ asTested /\ late[a] \in Attempt
    BY <1>2, InsertsFresh DEF LatePick
  <2>2. PICK n : n = Top + 1
    OBVIOUS
  <2>3. late'[a].product = q /\ late'[a].number = n /\ ~Ordered(q) /\ order' = order
    BY <1>0, <1>2, <2>1, <2>2 DEF LatePick, TypeOK, Attempt
  <2>4. Fresh(q, n)'
    BY <2>2, <2>3, PickFresh
  <2> QED BY <2>1, <2>3, <2>4, StrayMoves
<1>3. ASSUME NEW b \in Strays, LatePick(b), b # a PROVE LateOK(a)'
  <2>1. late'[a] = late[a]
    BY <1>0, <1>3 DEF LatePick, TypeOK
  <2> QED BY <2>1, StrayKept
<1>4. ASSUME NEW b \in Strays, LateInsert(b) \/ LateEnds(b) PROVE LateOK(a)'
  <2>1. late'[a] = late[a] \/ late'[a] = None
    BY <1>0, <1>4 DEF LateInsert, LateEnds, TypeOK
  <2> QED BY <2>1, StrayKept DEF LateOK
<1>5. ASSUME UNCHANGED late PROVE LateOK(a)'
  BY <1>5, StrayKept
<1>6. ASSUME NEW p \in Products, Process(p), ~TimesOut(p) PROVE UNCHANGED late
  BY <1>6 DEF Process, SkipUnusable, SkipOrdered, PickNumber, Created, NumberTaken,
              AttemptFails, CommitLost, MailDone
<1>7. CASE \/ Start \/ RunEnds \/ UNCHANGED vars \/ \E ps \in SUBSET Products : ListEligible(ps)
           \/ \E n \in Numbers : MoveOn(n) \/ Mail(n)
           \/ \E q \in Products : ChangeUsable(q)
  <2>1. UNCHANGED late
    BY <1>7 DEF Start, RunEnds, ListEligible, MoveOn, ChangeUsable, Mail, ReadCancelled,
                LogCancelled, MailEnds, Tell, vars, work
  <2> QED BY <1>5, <2>1
<1> QED BY <1>1, <1>2, <1>3, <1>4, <1>5, <1>6, <1>7 DEF Next, Step

-----------------------------------------------------------------------------
(* The emails. *)

\* Orders placed or moved on change nothing for emails nobody touches.
LEMMA MailKept ==
  ASSUME IInv, [Next]_vars, NEW n \in Numbers,
         n \in mailing' <=> n \in mailing, untold'[n] = untold[n],
         cancelled'[n] = cancelled[n], told'[n] = told[n],
         n \in bounced' <=> n \in bounced
  PROVE  MailOK(n)'
<1>1. MailOK(n) /\ (order[n] # None => order'[n] # None)
  BY OrdersGrow DEF IInv
<1> QED BY <1>1 DEF MailOK

\* The activity for a new order has everybody to write to, and nobody was yet.
LEMMA CreatedMail ==
  ASSUME IInv, NEW p \in Products, Created(p)
  PROVE  MailOK(number[p])'
<1>1. TypeOK /\ pc[p] = "insert"
  BY DEF IInv, Created
<1>2. PICK n \in Numbers : number[p] = n /\ number' = number
  BY <1>1, InsertsFresh DEF Created
<1>3. MailOK(n) /\ order[n] = None /\ order'[n] = [product |-> p, submitted |-> TRUE]
  BY <1>1, <1>2 DEF IInv, Created, Place, TypeOK
<1>4. /\ \A m \in Managers : told'[n][m] = 0
      /\ cancelled'[n] = 0 /\ n \in mailing' /\ order'[n] # None
      /\ untold'[n] = Managers
  BY <1>1, <1>2, <1>3, NewOrder DEF Created, MailOK, TypeOK
<1> QED BY <1>2, <1>4, NumbersAssumption DEF MailOK

\* Writing to a manager who was not written to in this attempt.
LEMMA TellMail ==
  ASSUME IInv, NEW n \in Numbers, NEW m \in Managers, Tell(n, m)
  PROVE  MailOK(n)'
<1>1. TypeOK /\ MailOK(n) /\ n \in mailing /\ m \in untold[n]
  BY DEF IInv, Tell
<1>2. /\ order' = order /\ mailing' = mailing /\ bounced' = bounced /\ cancelled' = cancelled
      /\ untold'[n] = untold[n] \ {m} /\ told'[n][m] = told[n][m] + 1
      /\ \A w \in Managers : w # m => told'[n][w] = told[n][w]
  BY <1>1 DEF Tell, TypeOK
<1>3. cancelled[n] \in Nat /\ untold[n] \subseteq Managers /\ \A w \in Managers : told[n][w] \in Nat
  BY <1>1 DEF TypeOK
<1>4. ASSUME NEW w \in Managers
      PROVE  /\ told'[n][w] <= cancelled[n] + 1
             /\ told'[n][w] <= Attempts /\ (told'[n][w] > 1 => n \in bounced)
  <2>1. CASE w = m
    BY <1>1, <1>2, <1>3, <2>1, NumbersAssumption DEF MailOK
  <2>2. CASE w # m
    BY <1>1, <1>2, <1>3, <2>2 DEF MailOK
  <2> QED BY <2>1, <2>2
<1>5. ASSUME NEW w \in untold'[n]
      PROVE  told'[n][w] <= cancelled[n] /\ (n \notin bounced => told'[n][w] = 0)
  <2>1. w \in untold[n] /\ w \in Managers /\ w # m
    BY <1>2, <1>3
  <2> QED BY <1>1, <1>2, <2>1 DEF MailOK
<1> QED BY <1>1, <1>2, <1>4, <1>5 DEF MailOK

\* An attempt cut short: those written to in it are written to again only if an
\* email bounced, and one more attempt is counted.
LEMMA CancelledMail ==
  ASSUME IInv, NEW n \in Numbers, ReadCancelled(n) \/ \E m \in Managers : LogCancelled(n, m)
  PROVE  MailOK(n)'
<1>1. TypeOK /\ MailOK(n) /\ n \in mailing /\ TellAgain(n) /\ order' = order
  BY DEF IInv, ReadCancelled, LogCancelled
<1>2. /\ cancelled[n] \in Nat /\ cancelled[n] < Attempts /\ order[n] # None
      /\ \A w \in Managers : told[n][w] \in Nat
      /\ untold[n] \subseteq Managers
  BY <1>1 DEF TypeOK, MailOK
<1>3. \/ /\ cancelled[n] + 1 < Attempts /\ cancelled'[n] = cancelled[n] + 1
         /\ n \in mailing' /\ untold'[n] = Managers
      \/ cancelled'[n] = 0 /\ n \notin mailing'
  BY <1>1 DEF TellAgain, TypeOK
<1>4. /\ \A w \in Managers : told'[n][w] <= cancelled[n] + 1
      /\ \A w \in Managers : n \notin bounced' => told'[n][w] = 0
  <2>1. CASE ReadCancelled(n)
    <3>1. told' = told /\ bounced' = bounced /\ untold[n] = Managers
      BY <2>1 DEF ReadCancelled
    <3> QED BY <1>1, <3>1 DEF MailOK
  <2>2. ASSUME NEW m \in Managers, LogCancelled(n, m)
        PROVE  n \in bounced' /\ \A w \in Managers : told'[n][w] <= cancelled[n] + 1
    <3>1. /\ n \in bounced' /\ m \in untold[n] /\ told'[n][m] = told[n][m] + 1
          /\ \A w \in Managers : w # m => told'[n][w] = told[n][w]
      BY <1>1, <2>2 DEF LogCancelled, TypeOK
    <3>2. told[n][m] <= cancelled[n] /\ \A w \in Managers : told[n][w] <= cancelled[n] + 1
      BY <1>1, <3>1 DEF MailOK
    <3>3. told'[n][m] <= cancelled[n] + 1
      BY <1>2, <3>1, <3>2
    <3> QED BY <3>1, <3>2, <3>3
  <2> QED BY <2>1, <2>2
<1>5. ASSUME NEW w \in Managers
      PROVE  told'[n][w] <= Attempts /\ (told'[n][w] > 1 => n \in bounced')
  <2>1. told'[n][w] \in Nat
    <3>1. told'[n][w] = told[n][w] \/ told'[n][w] = told[n][w] + 1
      BY <1>1 DEF ReadCancelled, LogCancelled, TypeOK
    <3> QED BY <1>2, <3>1
  <2> QED BY <1>2, <1>4, <2>1, NumbersAssumption
<1>6. CASE n \notin mailing'
  BY <1>1, <1>2, <1>3, <1>5, <1>6 DEF MailOK
<1>7. CASE n \in mailing'
  <2>1. /\ cancelled'[n] = cancelled[n] + 1 /\ cancelled'[n] < Attempts
        /\ untold'[n] = Managers
    BY <1>3, <1>7
  <2>2. \A w \in Managers : told'[n][w] <= cancelled'[n] + 1 /\ told'[n][w] <= cancelled'[n]
    <3>1. ASSUME NEW w \in Managers
          PROVE  told'[n][w] <= cancelled'[n] + 1 /\ told'[n][w] <= cancelled'[n]
      <4>1. told'[n][w] = told[n][w] \/ told'[n][w] = told[n][w] + 1
        BY <1>1 DEF ReadCancelled, LogCancelled, TypeOK
      <4> QED BY <1>2, <1>4, <2>1, <4>1
    <3> QED BY <3>1
  <2> QED BY <1>1, <1>2, <1>4, <1>5, <1>7, <2>1, <2>2 DEF MailOK
<1> QED BY <1>6, <1>7

\* Every step keeps what is known of the emails.
LEMMA MailsOK ==
  ASSUME IInv, [Next]_vars, NEW n \in Numbers
  PROVE  MailOK(n)'
<1>0. TypeOK
  BY DEF IInv
<1>1. CASE UNCHANGED mail
  BY <1>1, MailKept DEF mail
<1>2. ASSUME NEW p \in Products, Created(p) PROVE MailOK(n)'
  <2>1. CASE number[p] = n
    <3>1. MailOK(number[p])' /\ number' = number
      BY <1>2, CreatedMail DEF Created
    <3> QED BY <2>1, <3>1 DEF MailOK
  <2>2. CASE number[p] # n
    <3>1. /\ n \in mailing' <=> n \in mailing
          /\ untold'[n] = untold[n] /\ UNCHANGED <<cancelled, told, bounced>>
      BY <1>0, <1>2, <2>2 DEF Created, TypeOK
    <3> QED BY <3>1, MailKept
  <2> QED BY <2>1, <2>2
<1>3. ASSUME NEW p \in Products, Process(p), ~Created(p) PROVE UNCHANGED mail
  BY <1>3 DEF Process, SkipUnusable, SkipOrdered, PickNumber, NumberTaken,
          AttemptFails, CommitLost, TimesOut, MailDone
<1>4. ASSUME Mail(n) PROVE MailOK(n)'
  <2>1. CASE MailEnds(n)
    <3>1. MailOK(n) /\ n \in mailing
      BY <2>1 DEF IInv, MailEnds
    <3>2. /\ n \notin mailing' /\ cancelled'[n] = 0
          /\ UNCHANGED <<order, told, bounced>>
      BY <1>0, <2>1 DEF MailEnds, TypeOK
    <3> QED BY <3>1, <3>2 DEF MailOK
  <2> QED BY <1>4, <2>1, TellMail, CancelledMail DEF Mail
<1>5. ASSUME NEW k \in Numbers, k # n, Mail(k) PROVE MailOK(n)'
  <2>1. /\ n \in mailing' <=> n \in mailing
        /\ untold'[n] = untold[n] /\ cancelled'[n] = cancelled[n] /\ told'[n] = told[n]
        /\ n \in bounced' <=> n \in bounced
    BY <1>0, <1>5 DEF Mail, ReadCancelled, LogCancelled, TellAgain, MailEnds, Tell, TypeOK
  <2> QED BY <2>1, MailKept
<1>6. CASE \/ Start \/ RunEnds \/ UNCHANGED vars
           \/ \E ps \in SUBSET Products : ListEligible(ps)
           \/ \E k \in Numbers : MoveOn(k)
           \/ \E p \in Products : ChangeUsable(p)
           \/ \E a \in Strays : LatePick(a) \/ LateInsert(a) \/ LateEnds(a)
  <2>1. UNCHANGED mail
    BY <1>6 DEF Start, RunEnds, ListEligible, MoveOn, ChangeUsable, LatePick, LateInsert,
                LateEnds, vars
  <2> QED BY <1>1, <2>1
<1> QED BY <1>1, <1>2, <1>3, <1>4, <1>5, <1>6 DEF Next, Step

-----------------------------------------------------------------------------
(* The types, and the theorems. *)

\* Every step keeps the types.
LEMMA StepType ==
  ASSUME IInv, [Next]_vars
  PROVE  TypeOK'
<1> USE DEF TypeOK
<1>0. TypeOK /\ Top = Count /\ Count \in Nat
  BY SeriesFacts DEF IInv
<1>1. CASE Start \/ RunEnds \/ UNCHANGED vars
  BY <1>0, <1>1 DEF Start, RunEnds, vars, work, mail
<1>2. ASSUME NEW ps \in SUBSET Products, ListEligible(ps) PROVE TypeOK'
  BY <1>0, <1>2 DEF ListEligible, PC, Count, mail
<1>3. ASSUME NEW n \in Numbers, MoveOn(n) PROVE TypeOK'
  <2>1. order[n] \in Order
    BY <1>0, <1>3, OrderIsRecord DEF MoveOn
  <2>2. order' \in [Numbers -> Order \cup {None}]
    BY <1>0, <1>3, <2>1 DEF MoveOn, Order
  <2> QED BY <1>0, <1>3, <2>2 DEF MoveOn, work, mail
<1>4. ASSUME NEW p \in Products, ChangeUsable(p) PROVE TypeOK'
  BY <1>0, <1>4 DEF ChangeUsable, work, mail
<1>5. ASSUME NEW p \in Products, NEW n \in Numbers, Place(p, n)
      PROVE  order' \in [Numbers -> Order \cup {None}]
  BY <1>0, <1>5, NewOrder DEF Place
<1>6. ASSUME NEW p \in Products, Finish(p) \/ Repeat(p)
      PROVE  /\ pc' \in [Products -> PC] /\ number' \in [Products -> Numbers \cup {0}]
             /\ failed' \in [Products -> Nat]
  <2>1. CASE Finish(p)
    BY <1>0, <2>1 DEF Finish, PC
  <2>2. CASE Repeat(p) /\ ~Finish(p)
    <3>1. /\ pc' = [pc EXCEPT ![p] = "create"] /\ number' = [number EXCEPT ![p] = 0]
          /\ failed' = [failed EXCEPT ![p] = @ + 1]
      BY <2>2 DEF Repeat
    <3>2. pc' \in [Products -> PC] /\ number' \in [Products -> Numbers \cup {0}]
      BY <1>0, <3>1 DEF PC
    <3>3. failed' \in [Products -> Nat]
      BY <1>0, <3>1
    <3> QED BY <3>2, <3>3
  <2> QED BY <1>6, <2>1, <2>2
<1>7. ASSUME NEW p \in Products, SkipUnusable(p) \/ SkipOrdered(p) \/ MailDone(p)
      PROVE  TypeOK'
  BY <1>0, <1>6, <1>7 DEF SkipUnusable, SkipOrdered, MailDone, mail
<1>8. Top < LastNumber => Top + 1 \in Numbers
  BY <1>0, NumbersAssumption DEF Numbers
<1>9. ASSUME NEW p \in Products, PickNumber(p) PROVE TypeOK'
  <2>1. pc' \in [Products -> PC] /\ number' \in [Products -> Numbers \cup {0}]
    BY <1>0, <1>8, <1>9 DEF PickNumber, PC
  <2> QED BY <1>0, <1>9, <2>1 DEF PickNumber, mail
<1>10. ASSUME NEW p \in Products, Created(p) PROVE TypeOK'
  <2>1. number[p] \in Numbers
    BY <1>10, InsertsFresh DEF Created
  <2>2. pc' \in [Products -> PC] /\ failed' \in [Products -> Nat]
    BY <1>0, <1>10 DEF Created, PC
  <2>3. mailing' \subseteq Numbers /\ untold' \in [Numbers -> SUBSET Managers]
    BY <1>0, <1>10, <2>1 DEF Created
  <2> QED BY <1>0, <1>5, <1>10, <2>1, <2>2, <2>3 DEF Created
<1>11. ASSUME NEW p \in Products, NumberTaken(p) PROVE TypeOK'
  <2>1. due' \in [Products -> Nat]
    BY <1>0, <1>11 DEF NumberTaken
  <2> QED BY <1>0, <1>6, <1>11, <2>1 DEF NumberTaken, mail
<1>12. ASSUME NEW p \in Products, AttemptFails(p) \/ CommitLost(p) PROVE TypeOK'
  <2>1. order' \in [Numbers -> Order \cup {None}]
    BY <1>0, <1>5, <1>12, InsertsFresh DEF AttemptFails, CommitLost
  <2>2. Repeat(p)
    BY <1>12 DEF AttemptFails, CommitLost
  <2> QED BY <1>0, <1>6, <1>12, <2>1, <2>2 DEF AttemptFails, CommitLost, mail
<1>13. ASSUME NEW p \in Products, TimesOut(p) PROVE TypeOK'
  <2>1. [product |-> p, number |-> number[p]] \in Attempt
    BY <1>0 DEF Attempt
  <2>2. late' \in [Strays -> Attempt \cup {None}]
    BY <1>0, <1>13, <2>1 DEF TimesOut
  <2> QED BY <1>0, <1>6, <1>13, <2>2 DEF TimesOut, mail
<1>14. ASSUME NEW a \in Strays, LatePick(a) PROVE TypeOK'
  <2>1. late[a] \in Attempt
    BY <1>14, InsertsFresh DEF LatePick
  <2>2. [late[a] EXCEPT !.number = Top + 1] \in Attempt
    BY <1>8, <1>14, <2>1 DEF LatePick, Attempt
  <2>3. late' \in [Strays -> Attempt \cup {None}]
    BY <1>0, <1>14, <2>2 DEF LatePick
  <2> QED BY <1>0, <1>14, <2>3 DEF LatePick, mail
<1>15. ASSUME NEW a \in Strays, LateInsert(a) \/ LateEnds(a) PROVE TypeOK'
  <2>1. order' \in [Numbers -> Order \cup {None}]
    BY <1>0, <1>5, <1>15, InsertsFresh DEF LateInsert, LateEnds
  <2>2. late' \in [Strays -> Attempt \cup {None}]
    BY <1>0, <1>15 DEF LateInsert, LateEnds
  <2> QED BY <1>0, <1>15, <2>1, <2>2 DEF LateInsert, LateEnds, mail
<1>16. ASSUME NEW n \in Numbers, NEW m \in Managers PROVE Tell(n, m) => TypeOK'
  <2>1. Tell(n, m) => told' \in [Numbers -> [Managers -> Nat]]
    BY <1>0 DEF Tell
  <2>2. Tell(n, m) => untold' \in [Numbers -> SUBSET Managers]
    BY <1>0 DEF Tell
  <2> QED BY <1>0, <2>1, <2>2 DEF Tell, work
<1>17. ASSUME NEW n \in Numbers, TellAgain(n)
       PROVE  /\ mailing' \subseteq Numbers /\ untold' \in [Numbers -> SUBSET Managers]
              /\ cancelled' \in [Numbers -> Nat]
  <2> DEFINE again == cancelled[n] + 1 < Attempts /\ \E p \in Products : pc[p] = "mail" /\ number[p] = n
  <2>1. CASE again
    <3>1. /\ cancelled' = [cancelled EXCEPT ![n] = @ + 1] /\ mailing' = mailing
          /\ untold' = [untold EXCEPT ![n] = Managers]
      BY <1>17, <2>1 DEF TellAgain
    <3> QED BY <1>0, <3>1
  <2>2. CASE ~again
    <3>1. /\ cancelled' = [cancelled EXCEPT ![n] = 0] /\ mailing' = mailing \ {n}
          /\ untold' = [untold EXCEPT ![n] = {}]
      BY <1>17, <2>2 DEF TellAgain
    <3> QED BY <1>0, <3>1
  <2> QED BY <2>1, <2>2
<1>18. ASSUME NEW n \in Numbers, ReadCancelled(n) PROVE TypeOK'
  BY <1>0, <1>17, <1>18 DEF ReadCancelled, work
<1>19. ASSUME NEW n \in Numbers, NEW m \in Managers, LogCancelled(n, m) PROVE TypeOK'
  <2>1. told' \in [Numbers -> [Managers -> Nat]] /\ bounced' \subseteq Numbers
    BY <1>0, <1>19 DEF LogCancelled
  <2> QED BY <1>0, <1>17, <1>19, <2>1 DEF LogCancelled, work
<1>20. ASSUME NEW n \in Numbers, MailEnds(n) PROVE TypeOK'
  BY <1>0, <1>20 DEF MailEnds, work
<1> HIDE DEF TypeOK
<1> QED BY <1>1, <1>2, <1>3, <1>4, <1>7, <1>9, <1>10, <1>11, <1>12, <1>13, <1>14, <1>15, <1>16,
           <1>18, <1>19, <1>20
        DEF Next, Step, Process, Mail

\* The whole invariant holds in every reachable state.
THEOREM InductiveInvariant == Spec => []IInv
<1>1. Init => IInv
  <2> SUFFICES ASSUME Init PROVE IInv
    OBVIOUS
  <2>1. TypeOK
    BY DEF Init, TypeOK, PC
  <2>2. Placed = {} /\ Count = 0
    BY FS_EmptySet DEF Init, Placed, Count
  <2>3. InSeries /\ OneSubmitted
    BY <2>2 DEF Init, InSeries, OneSubmitted
  <2>4. \A p \in Products : AttemptOK(p)
    BY <2>2 DEF Init, AttemptOK
  <2>5. \A a \in Strays : LateOK(a)
    BY DEF Init, LateOK
  <2>6. \A n \in Numbers : MailOK(n)
    BY NumbersAssumption DEF Init, MailOK
  <2> QED BY <2>1, <2>3, <2>4, <2>5, <2>6 DEF IInv
<1>2. IInv /\ [Next]_vars => IInv'
  <2> SUFFICES ASSUME IInv, [Next]_vars PROVE IInv'
    OBVIOUS
  <2>1. TypeOK' /\ InSeries' /\ OneSubmitted'
    BY StepType, OrdersGrow
  <2>2. \A p \in Products : AttemptOK(p)'
    BY AttemptsOK
  <2>3. \A a \in Strays : LateOK(a)'
    BY StraysOK
  <2>4. \A n \in Numbers : MailOK(n)'
    BY MailsOK
  <2> QED BY <2>1, <2>2, <2>3, <2>4 DEF IInv
<1> QED BY <1>1, <1>2, PTL DEF Spec

\* A product never has two open automatic orders: an attempt that saw none either
\* inserts before anybody else does, or finds its number taken and looks again.
THEOREM OneOpenOrder == Spec => []OneSubmitted
<1>1. IInv => OneSubmitted
  BY DEF IInv
<1> QED BY <1>1, InductiveInvariant, PTL

\* A number is found taken at most once per order placed meanwhile, so attempts
\* of a few products cannot starve one another.
THEOREM TakenByOthers == Spec => []TakenNeedsOthers
<1>1. IInv => TakenNeedsOthers
  BY DEF IInv, AttemptOK, TakenNeedsOthers, Count
<1> QED BY <1>1, InductiveInvariant, PTL

\* However its creation was repeated, however long an email activity outlives its
\* run and however often workers shut down, no manager is written to about an
\* order oftener than there are attempts, and again only after an email about it
\* had failed.
THEOREM ToldAgainAfterBounce == Spec => []ToldAgain
<1>1. IInv => ToldAgain
  BY DEF IInv, MailOK, ToldAgain
<1> QED BY <1>1, InductiveInvariant, PTL

=============================================================================
