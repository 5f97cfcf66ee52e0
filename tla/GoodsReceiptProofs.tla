------------------------- MODULE GoodsReceiptProofs -------------------------
(***************************************************************************)
(* Goods receipt, proved for every number of sessions, POs, products and   *)
(* GRNs: the inductive invariant IInv, the safety properties that follow   *)
(* from it, and that every completion is one posting of the abstract       *)
(* ledger.                                                                 *)
(***************************************************************************)
EXTENDS GoodsReceipt, SumTheorems, TLAPS

USE DEF PC, POStatus, OpenGrn, Receivable, NoLineYet, POFree, ProductFree, NotReferred, Release

-----------------------------------------------------------------------------
(* Types. *)

\* A call starts with no balance and no change of its own.
LEMMA NothingType == Nothing \in [Products -> Nat] /\ Nothing \in [Products -> Int]
BY DEF Nothing

\* What is outstanding of an order is a quantity for each of its lines.
LEMMA OutstandingType ==
  ASSUME TypeOK, NEW po \in POs, NEW p \in Products
  PROVE  /\ Outstanding(po, p) \in Nat
         /\ Outstanding(po, p) > 0 => Outstanding(po, p) + received[po][p] = Ordered[po][p]
         /\ Outstanding(po, p) = 0 => received[po][p] >= Ordered[po][p]
<1>1. Ordered[po][p] \in Nat /\ received[po][p] \in Nat
  BY OrderedAssumption DEF TypeOK
<1> QED BY <1>1 DEF Outstanding

\* Ending a transaction keeps the session-local variables and the locks typed.
LEMMA EndTransactionType ==
  ASSUME TypeOK, NEW s \in Sessions, EndTransaction(s)
  PROVE  /\ poLock' \in [POs -> Sessions \cup {None}]
         /\ productLock' \in [Products -> Sessions \cup {None}]
         /\ keyShare' \in [Sessions -> SUBSET Products]
         /\ pc' \in [Sessions -> PC]
         /\ job' \in [Sessions -> [grn : GRNs \cup {None}, product : Products \cup {None},
                                   qty : Nat]]
         /\ seen' \in [Sessions -> [Products -> Nat]]
         /\ todo' \in [Sessions -> SUBSET Products]
         /\ balance' \in [Sessions -> [Products -> Int]]
         /\ short' \in [Sessions -> [Products -> Nat]]
BY NothingType DEF TypeOK, EndTransaction, NoJob

\* The initial state has the right types.
LEMMA InitType == Init => TypeOK
<1> SUFFICES ASSUME Init PROVE TypeOK
  OBVIOUS
<1>1. ledger \in [Products -> Seq(Entry)]
  BY DEF Init
<1>2. backorders \in [POs -> [Products -> Seq(Backorder)]]
  BY DEF Init
<1> QED BY <1>1, <1>2, NothingType DEF Init, TypeOK, NoJob, NoGrn

\* A completion's commit, the only step that writes most of the tables.
LEMMA CommitType ==
  ASSUME IInv, NEW s \in Sessions, CompleteCommit(s)
  PROVE  TypeOK'
<1> DEFINE g  == job[s].grn
           po == JobPO(s)
           posted == {p \in Products : seen[s][p] > 0}
<1>0. TypeOK /\ EndTransaction(s)
  BY DEF IInv, CompleteCommit
<1>1. g \in GRNs /\ po \in POs
  BY DEF IInv, SessionOK, JobNamesRows, GrnsOfShippedPOs, CompleteCommit, JobPO
<1>2. \A p \in Products : /\ seen[s][p] \in Nat /\ balance[s][p] \in Int /\ short[s][p] \in Nat
                          /\ Ordered[po][p] \in Nat
  BY <1>0, <1>1, OrderedAssumption DEF TypeOK
<1>3. stock' \in [Products -> Int]
  BY <1>0, <1>2 DEF CompleteCommit, TypeOK
<1>4. ledger' \in [Products -> Seq(Entry)]
  <2>1. ASSUME NEW p \in Products PROVE ledger'[p] \in Seq(Entry)
    <3>1. [change |-> seen[s][p], balance |-> balance[s][p], reference |-> g] \in Entry
      BY <1>1, <1>2 DEF Entry
    <3>2. ledger[p] \in Seq(Entry)
      BY <1>0 DEF TypeOK
    <3> QED BY <3>1, <3>2 DEF CompleteCommit
  <2> QED BY <2>1 DEF CompleteCommit
<1>5. backorders' \in [POs -> [Products -> Seq(Backorder)]]
  <2>1. ASSUME NEW p \in Products PROVE backorders'[po][p] \in Seq(Backorder)
    <3>1. [received |-> Ordered[po][p] - short[s][p], outstanding |-> short[s][p],
           grn |-> g] \in Backorder
      BY <1>1, <1>2 DEF Backorder
    <3>2. /\ backorders[po][p] \in Seq(Backorder)
          /\ backorders \in [POs -> [Products -> Seq(Backorder)]]
      BY <1>0, <1>1 DEF TypeOK
    <3> QED BY <1>1, <3>1, <3>2 DEF CompleteCommit
  <2>2. \E f \in [Products -> Seq(Backorder)] : backorders' = [backorders EXCEPT ![po] = f]
    <3> DEFINE f == [p \in Products |->
                         IF short[s][p] > 0
                         THEN Append(backorders[po][p],
                                     [received |-> Ordered[po][p] - short[s][p],
                                      outstanding |-> short[s][p], grn |-> g])
                         ELSE backorders[po][p]]
    <3>1. backorders' = [backorders EXCEPT ![po] = f]
      BY DEF CompleteCommit
    <3>2. backorders'[po] = f
      BY <3>1, <1>0, <1>1 DEF TypeOK
    <3>3. f \in [Products -> Seq(Backorder)]
      BY <2>1, <3>2
    <3> QED BY <3>1, <3>3
  <2> QED BY <1>0, <2>2 DEF TypeOK
<1>6. poStatus' \in [POs -> POStatus]
  BY <1>0 DEF CompleteCommit, TypeOK
<1>7. grn' \in [GRNs -> [status : {"none", "open", "completed"},
                         po : POs \cup {None}, reorder : BOOLEAN]]
  BY <1>0, <1>1 DEF CompleteCommit, TypeOK
<1>8. UNCHANGED <<line, received, deleted>>
  BY DEF CompleteCommit
<1> QED BY <1>0, <1>3, <1>4, <1>5, <1>6, <1>7, <1>8, EndTransactionType DEF TypeOK

\* Every step of grn_service.py keeps the types.
LEMMA StepType == IInv /\ [Next]_vars => TypeOK'
<1> SUFFICES ASSUME IInv, [Next]_vars PROVE TypeOK'
  OBVIOUS
<1> USE DEF rows, locks, local
<1>0. TypeOK
  BY DEF IInv
<1>1. ASSUME NEW po \in POs, MarkShipped(po) PROVE TypeOK'
  BY <1>0, <1>1 DEF TypeOK, MarkShipped
<1>2. ASSUME NEW p \in Deletable, DeleteProduct(p) PROVE TypeOK'
  BY <1>0, <1>2, DeletableAssumption DEF TypeOK, DeleteProduct
<1>3. ASSUME NEW g \in GRNs, NEW po \in POs, CreateGrn(g, po) PROVE TypeOK'
  BY <1>0, <1>3 DEF TypeOK, CreateGrn
<1>4. ASSUME NEW s \in Sessions, NEW g \in GRNs, NEW p \in Products, NEW q \in Quantities,
             AddLineRead(s, g, p, q)
      PROVE  TypeOK'
  BY <1>0, <1>4, QuantitiesAssumption DEF TypeOK, AddLineRead
<1>5. ASSUME NEW s \in Sessions, AddLineCheck(s) PROVE TypeOK'
  BY <1>0, <1>5 DEF TypeOK, AddLineCheck
<1>6. ASSUME NEW s \in Sessions, EndTransaction(s), UNCHANGED rows PROVE TypeOK'
  BY <1>0, <1>6, EndTransactionType DEF TypeOK
<1>7. ASSUME NEW s \in Sessions, AddLineInsert(s) PROVE TypeOK'
  <2>1. /\ job[s].grn \in GRNs /\ job[s].product \in Products /\ job[s].qty \in Nat
        /\ grn[job[s].grn].po \in POs
    BY <1>7, QuantitiesAssumption DEF IInv, SessionOK, JobNamesRows, GrnsOfShippedPOs, AddLineInsert
  <2>2. line' \in [GRNs -> [Products -> Nat]]
    <3>1. line' = [line EXCEPT ![job[s].grn] =
                     [line[job[s].grn] EXCEPT ![job[s].product] = job[s].qty]]
      BY <1>7 DEF AddLineInsert
    <3>2. [line[job[s].grn] EXCEPT ![job[s].product] = job[s].qty] \in [Products -> Nat]
      BY <1>0, <2>1 DEF TypeOK
    <3> QED BY <1>0, <3>1, <3>2 DEF TypeOK
  <2>3. received' \in [POs -> [Products -> Nat]]
    <3> DEFINE r == grn[job[s].grn].po
               sum == received[r][job[s].product] + job[s].qty
    <3>1. received' = [received EXCEPT ![r] = [received[r] EXCEPT ![job[s].product] = sum]]
      BY <1>7 DEF AddLineInsert
    <3>2. received[r] \in [Products -> Nat] /\ sum \in Nat
      BY <1>0, <2>1 DEF TypeOK
    <3>3. [received[r] EXCEPT ![job[s].product] = sum] \in [Products -> Nat]
      BY <3>2
    <3> QED BY <1>0, <3>1, <3>3 DEF TypeOK
  <2> QED BY <1>0, <1>7, <2>2, <2>3, EndTransactionType DEF TypeOK, AddLineInsert
<1>8. ASSUME NEW s \in Sessions, NEW g \in GRNs, CompleteRead(s, g) PROVE TypeOK'
  BY <1>0, <1>8 DEF TypeOK, CompleteRead
<1>9. ASSUME NEW s \in Sessions, CompleteLockPO(s) PROVE TypeOK'
  <2>1. job[s].grn \in GRNs
    BY <1>9 DEF IInv, SessionOK, JobNamesRows, CompleteLockPO
  <2> QED BY <1>0, <1>9, <2>1 DEF TypeOK, CompleteLockPO, Received
<1>10. ASSUME NEW s \in Sessions, NEW p \in Products, CompletePost(s, p) PROVE TypeOK'
  <2>1. stock[p] + seen[s][p] \in Int
    BY <1>0 DEF TypeOK
  <2> QED BY <1>0, <1>10, <2>1 DEF TypeOK, CompletePost
<1>11. ASSUME NEW s \in Sessions, NEW p \in Products, CompleteAssess(s, p) PROVE TypeOK'
  <2>1. JobPO(s) \in POs
    BY <1>11 DEF IInv, SessionOK, JobNamesRows, GrnsOfShippedPOs, CompleteAssess, JobPO
  <2>2. Outstanding(JobPO(s), p) \in Nat
    BY <1>0, <2>1, OutstandingType
  <2> QED BY <1>0, <1>11, <2>2 DEF TypeOK, CompleteAssess
<1>14. ASSUME NEW s \in Sessions, CompleteListLines(s) PROVE TypeOK'
  BY <1>0, <1>14 DEF TypeOK, CompleteListLines
<1>15. ASSUME NEW s \in Sessions, NEW p \in Products, CompleteBackorder(s, p) PROVE TypeOK'
  BY <1>0, <1>15 DEF TypeOK, CompleteBackorder
<1>12. ASSUME NEW s \in Sessions, CompleteCommit(s) PROVE TypeOK'
  BY <1>12, CommitType
<1>13. CASE UNCHANGED vars
  BY <1>0, <1>13 DEF TypeOK, vars
<1> QED
  BY <1>1, <1>2, <1>3, <1>4, <1>5, <1>6, <1>7, <1>8, <1>9, <1>10, <1>11, <1>12, <1>13,
     <1>14, <1>15
  DEF Next, Step, AddLineOverReceipt, AddLineDuplicate, CompleteEmpty,
      CompleteProductGone, DeadlockAbort, Abort


-----------------------------------------------------------------------------
(* What no step undoes. *)

\* The only steps that write a table.
LEMMA RowSteps ==
  ASSUME [Next]_vars
  PROVE  \/ \E po \in POs : MarkShipped(po)
         \/ \E p \in Deletable : DeleteProduct(p)
         \/ \E g \in GRNs, po \in POs : CreateGrn(g, po)
         \/ \E s \in Sessions : AddLineInsert(s) \/ CompleteCommit(s)
         \/ UNCHANGED rows
<1>1. ASSUME NEW s \in Sessions, Step(s), ~AddLineInsert(s), ~CompleteCommit(s)
      PROVE  UNCHANGED rows
  BY <1>1 DEF Step, AddLineCheck, AddLineOverReceipt, AddLineDuplicate, CompleteLockPO,
              CompleteEmpty, CompletePost, CompleteProductGone, CompleteListLines,
              CompleteAssess, CompleteBackorder
<1>2. ASSUME NEW s \in Sessions,
             \/ \E g \in GRNs, p \in Products, q \in Quantities : AddLineRead(s, g, p, q)
             \/ \E g \in GRNs : CompleteRead(s, g)
             \/ DeadlockAbort(s) \/ Abort(s)
      PROVE  UNCHANGED rows
  BY <1>2 DEF AddLineRead, CompleteRead, DeadlockAbort, Abort
<1>3. CASE UNCHANGED vars
  BY <1>3 DEF vars
<1> QED BY <1>1, <1>2, <1>3 DEF Next

\* A GRN that exists stays, on the same PO.
LEMMA GrnStable ==
  ASSUME IInv, [Next]_vars, NEW g \in GRNs, grn[g].status # "none"
  PROVE  grn'[g].status # "none" /\ grn'[g].po = grn[g].po
<1>0. TypeOK
  BY DEF IInv
<1>1. CASE \E h \in GRNs, po \in POs : CreateGrn(h, po)
  BY <1>0, <1>1 DEF CreateGrn, TypeOK
<1>2. ASSUME NEW s \in Sessions, CompleteCommit(s)
      PROVE  grn'[g].status # "none" /\ grn'[g].po = grn[g].po
  <2>1. PICK reorder : grn' = [grn EXCEPT ![job[s].grn] =
                                 [status |-> "completed", po |-> grn[job[s].grn].po,
                                  reorder |-> reorder]]
    BY <1>2 DEF CompleteCommit, JobPO
  <2>2. CASE g = job[s].grn
    BY <1>0, <2>1, <2>2 DEF TypeOK
  <2>3. CASE g # job[s].grn
    BY <1>0, <2>1, <2>3 DEF TypeOK
  <2> QED BY <2>2, <2>3
<1>3. CASE grn' = grn
  BY <1>3
<1> QED
  BY <1>1, <1>2, <1>3, RowSteps DEF rows, MarkShipped, DeleteProduct, AddLineInsert

\* GRN lines are only added.
LEMMA ReceivedGrows ==
  ASSUME IInv, [Next]_vars, NEW po \in POs, NEW p \in Products
  PROVE  received'[po][p] >= received[po][p]
<1>0. TypeOK /\ received[po][p] \in Nat
  BY DEF IInv, TypeOK
<1>1. CASE \E s \in Sessions : AddLineInsert(s)
  <2>1. PICK s \in Sessions : AddLineInsert(s)
    BY <1>1
  <2> DEFINE g == job[s].grn
  <2>2. job[s].qty \in Nat /\ job[s].product \in Products /\ grn[g].po \in POs
    BY <2>1, QuantitiesAssumption
    DEF IInv, SessionOK, JobNamesRows, GrnsOfShippedPOs, AddLineInsert
  <2>3. received' = [received EXCEPT ![grn[g].po][job[s].product] = @ + job[s].qty]
    BY <2>1 DEF AddLineInsert
  <2>4. PICK r \in POs, q \in Products, n \in Nat :
          received' = [received EXCEPT ![r] = [received[r] EXCEPT ![q] = received[r][q] + n]]
    BY <2>2, <2>3
  <2>5. received \in [POs -> [Products -> Nat]]
    BY <1>0 DEF TypeOK
  <2>6. received'[po][p] = IF po = r /\ p = q THEN received[po][p] + n ELSE received[po][p]
    BY <2>4, <2>5
  <2> QED BY <1>0, <2>6
<1>2. CASE received' = received
  BY <1>0, <1>2
<1> QED
  BY <1>1, <1>2, RowSteps DEF rows, MarkShipped, DeleteProduct, CreateGrn, CompleteCommit

\* So what is outstanding on a PO line only shrinks.
LEMMA OutstandingShrinks ==
  ASSUME IInv, [Next]_vars, NEW po \in POs, NEW p \in Products
  PROVE  Outstanding(po, p)' <= Outstanding(po, p)
<1>0. TypeOK /\ TypeOK' /\ received'[po][p] >= received[po][p]
  BY ReceivedGrows, StepType DEF IInv
<1>1. /\ Ordered[po][p] \in Nat /\ received[po][p] \in Nat /\ received'[po][p] \in Nat
      /\ received'[po][p] >= received[po][p]
  BY <1>0, OrderedAssumption DEF TypeOK
<1> QED BY <1>1 DEF Outstanding

\* A PO that was shipped stays shipped or becomes received.
LEMMA ShippedStays ==
  ASSUME IInv, [Next]_vars, NEW po \in POs, poStatus[po] \in {"shipped", "received"}
  PROVE  poStatus'[po] \in {"shipped", "received"}
<1>0. TypeOK
  BY DEF IInv
<1>1. CASE \E q \in POs : MarkShipped(q)
  BY <1>0, <1>1 DEF MarkShipped, TypeOK
<1>2. CASE \E s \in Sessions : CompleteCommit(s)
  BY <1>0, <1>2 DEF CompleteCommit, TypeOK
<1>3. CASE poStatus' = poStatus
  BY <1>3
<1> QED
  BY <1>1, <1>2, <1>3, RowSteps DEF rows, CreateGrn, DeleteProduct, AddLineInsert

\* The stock of a product locked by one session is not written by another.
LEMMA LockedStockKept ==
  ASSUME IInv, [Next]_vars, NEW t \in Sessions, pc'[t] = pc[t], pc[t] \in {"post", "assess"},
         NEW p \in Products, productLock[p] = t
  PROVE  stock'[p] = stock[p]
<1>0. TypeOK
  BY DEF IInv
<1>1. ASSUME NEW s \in Sessions, CompleteCommit(s)
      PROVE  stock'[p] = stock[p]
  <2>1. s # t
    BY <1>0, <1>1 DEF CompleteCommit, EndTransaction, TypeOK
  <2>2. CurrentFor(s) /\ pc[s] = "assess"
    BY <1>1 DEF IInv, SessionOK, CompleteCommit
  <2>3. ~(seen[s][p] > 0)
    BY <2>1, <2>2 DEF CurrentFor
  <2> QED BY <1>0, <1>1, <2>3 DEF CompleteCommit, TypeOK
<1>2. CASE stock' = stock
  BY <1>2
<1> QED
  BY <1>1, <1>2, RowSteps DEF rows, MarkShipped, CreateGrn, DeleteProduct, AddLineInsert

-----------------------------------------------------------------------------
(* The sessions. *)

\* A step leaves session t where it is in its call.
Keeps(t) ==
  /\ pc'[t] = pc[t] /\ job'[t] = job[t] /\ seen'[t] = seen[t]
  /\ todo'[t] = todo[t] /\ balance'[t] = balance[t] /\ short'[t] = short[t]
  /\ \A po \in POs : (poLock'[po] = t) <=> (poLock[po] = t)
  /\ \A p \in Products : (productLock'[p] = t) <=> (productLock[p] = t)
  /\ keyShare'[t] = keyShare[t]

\* What a session relies on stays, after a step that keeps what is the
\* session's.
LEMMA KeptSessionOK ==
  ASSUME IInv, [Next]_vars, NEW t \in Sessions, Keeps(t)
  PROVE  SessionOK(t)'
<1>0. TypeOK /\ TypeOK' /\ SessionOK(t)
  BY StepType DEF IInv
<1>1. pc[t] # "idle" => /\ job[t].grn \in GRNs /\ grn'[job[t].grn].status # "none"
                        /\ JobPO(t)' = JobPO(t)
  BY <1>0, GrnStable DEF SessionOK, JobNamesRows, Keeps, JobPO
<1>2. JobNamesRows(t)'
  BY <1>0, <1>1 DEF SessionOK, JobNamesRows, Keeps
<1>3. LocksOwned(t)'
  BY <1>0, <1>1 DEF SessionOK, LocksOwned, Keeps
<1>4. ASSUME pc'[t] \in {"post", "assess"}
      PROVE  CurrentFor(t)'
  <2>1. pc[t] \in {"post", "assess"} /\ CurrentFor(t) /\ JobPO(t)' = JobPO(t)
    BY <1>0, <1>1, <1>4 DEF SessionOK, Keeps
  <2>2. JobPO(t) \in POs
    BY <1>0, <2>1 DEF IInv, SessionOK, JobNamesRows, GrnsOfShippedPOs, JobPO
  <2>3. poLock'[JobPO(t)'] = t
    BY <2>1, <2>2 DEF CurrentFor, Keeps
  <2>4. \A p \in Products : productLock[p] = t => stock'[p] = stock[p]
    BY <2>1, LockedStockKept DEF Keeps
  <2>5. \A p \in Products :
          /\ seen'[t][p] \in Quantities \cup {0}
          /\ pc'[t] = "post" /\ p \in todo'[t] => seen'[t][p] > 0
          /\ seen'[t][p] > 0 /\ (pc'[t] = "post" => p \notin todo'[t]) =>
               productLock'[p] = t /\ balance'[t][p] = stock'[p] + seen'[t][p]
    BY <2>1, <2>4 DEF CurrentFor, Keeps
  <2>6. ASSUME pc'[t] = "assess", NEW p \in Products, p \notin todo'[t]
        PROVE  short'[t][p] >= Outstanding(JobPO(t), p)'
    <3>2. /\ short[t][p] >= Outstanding(JobPO(t), p)
          /\ short'[t][p] = short[t][p] /\ short[t][p] \in Nat
      BY <1>0, <2>1, <2>6 DEF CurrentFor, Keeps, TypeOK
    <3>3. PICK q \in POs : q = JobPO(t) /\ JobPO(t)' = q
      BY <2>1, <2>2
    <3>4. Outstanding(q, p)' <= Outstanding(q, p)
      BY OutstandingShrinks
    <3>5. Outstanding(q, p) \in Nat /\ Outstanding(q, p)' \in Nat
      <4>1. Ordered[q][p] \in Nat /\ received[q][p] \in Nat /\ received'[q][p] \in Nat
        BY <1>0, OrderedAssumption DEF TypeOK
      <4> QED BY <4>1 DEF Outstanding
    <3>6. Outstanding(JobPO(t), p)' = Outstanding(q, p)'
      BY <3>3 DEF Outstanding
    <3> QED BY <3>2, <3>3, <3>4, <3>5, <3>6
  <2> QED BY <2>1, <2>3, <2>5, <2>6 DEF CurrentFor, Keeps
<1> QED BY <1>2, <1>3, <1>4 DEF SessionOK

\* A transaction that ends leaves its session idle, without locks, and the
\* other sessions where they are.
LEMMA EndedSessionsOK ==
  ASSUME IInv, [Next]_vars, NEW s \in Sessions, EndTransaction(s), NEW t \in Sessions
  PROVE  SessionOK(t)'
<1>0. TypeOK /\ TypeOK'
  BY StepType DEF IInv
<1>1. CASE t = s
  <2>1. pc'[t] = "idle"
    BY <1>0, <1>1 DEF EndTransaction, TypeOK
  <2>2. /\ \A po \in POs : poLock'[po] # t
        /\ \A p \in Products : productLock'[p] # t
    <3>1. None # t
      BY NoneAssumption
    <3> QED BY <1>1, <3>1 DEF EndTransaction
  <2>3. keyShare'[t] = {} /\ short'[t] = Nothing
    BY <1>0, <1>1 DEF EndTransaction, TypeOK
  <2> QED BY <2>1, <2>2, <2>3 DEF SessionOK, JobNamesRows, LocksOwned
<1>2. CASE t # s
  <2>1. Keeps(t)
    <3>1. None # t
      BY NoneAssumption
    <3>2. /\ \A po \in POs : (poLock'[po] = t) <=> (poLock[po] = t)
          /\ \A p \in Products : (productLock'[p] = t) <=> (productLock[p] = t)
      BY <1>2, <3>1 DEF EndTransaction
    <3>3. /\ pc'[t] = pc[t] /\ job'[t] = job[t] /\ seen'[t] = seen[t]
          /\ todo'[t] = todo[t] /\ balance'[t] = balance[t] /\ short'[t] = short[t]
          /\ keyShare'[t] = keyShare[t]
      BY <1>0, <1>2 DEF EndTransaction, TypeOK
    <3> QED BY <3>2, <3>3 DEF Keeps
  <2> QED BY <2>1, KeptSessionOK
<1> QED BY <1>1, <1>2

\* add_line reads: no session's footing changes.
LEMMA AddLineReadSessionsOK ==
  ASSUME IInv, [Next]_vars, NEW s \in Sessions, NEW g \in GRNs, NEW r \in Products,
         NEW q \in Quantities, AddLineRead(s, g, r, q), NEW t \in Sessions
  PROVE  SessionOK(t)'
<1>0. TypeOK /\ SessionOK(s)
  BY DEF IInv
<1>1. CASE t = s
  <2>1. /\ pc[t] = "idle" /\ pc'[t] = "add_check"
        /\ job'[t] = [grn |-> g, product |-> r, qty |-> q]
        /\ grn' = grn /\ grn[g].status = "open"
        /\ poLock' = poLock /\ productLock' = productLock
        /\ keyShare' = keyShare /\ short' = short
    BY <1>0, <1>1 DEF AddLineRead, TypeOK, rows, locks
  <2>2. LocksOwned(t)'
    BY <1>0, <1>1, <2>1 DEF SessionOK, LocksOwned
  <2> QED BY <2>1, <2>2 DEF SessionOK, JobNamesRows
<1>2. CASE t # s
  <2>1. Keeps(t)
    BY <1>0, <1>2 DEF AddLineRead, Keeps, TypeOK, locks
  <2> QED BY <2>1, KeptSessionOK
<1> QED BY <1>1, <1>2

\* add_line sums what was received: no session's footing changes.
LEMMA AddLineCheckSessionsOK ==
  ASSUME IInv, [Next]_vars, NEW s \in Sessions, AddLineCheck(s), NEW t \in Sessions
  PROVE  SessionOK(t)'
<1>0. TypeOK /\ SessionOK(s)
  BY DEF IInv
<1>1. CASE t = s
  <2>1. /\ pc[t] = "add_check" /\ pc'[t] = "add_insert" /\ job' = job /\ grn' = grn
        /\ poLock' = poLock /\ productLock' = productLock
        /\ keyShare' = keyShare /\ short' = short
    BY <1>0, <1>1 DEF AddLineCheck, TypeOK, rows, locks
  <2>2. LocksOwned(t)'
    BY <1>0, <1>1, <2>1 DEF SessionOK, LocksOwned
  <2>3. JobNamesRows(t)'
    BY <1>0, <1>1, <2>1 DEF SessionOK, JobNamesRows
  <2> QED BY <2>1, <2>2, <2>3 DEF SessionOK
<1>2. CASE t # s
  <2>1. Keeps(t)
    BY <1>0, <1>2 DEF AddLineCheck, Keeps, TypeOK, locks
  <2> QED BY <2>1, KeptSessionOK
<1> QED BY <1>1, <1>2

\* complete_grn reads the GRN: it relies on nothing it has not locked.
LEMMA CompleteReadSessionsOK ==
  ASSUME IInv, [Next]_vars, NEW s \in Sessions, NEW g \in GRNs, CompleteRead(s, g),
         NEW t \in Sessions
  PROVE  SessionOK(t)'
<1>0. TypeOK /\ SessionOK(s)
  BY DEF IInv
<1>1. CASE t = s
  <2>1. /\ pc[t] = "idle" /\ pc'[t] = "lock_po"
        /\ job'[t] = [grn |-> g, product |-> None, qty |-> 0]
        /\ grn' = grn /\ grn[g].status = "open"
        /\ poLock' = poLock /\ productLock' = productLock
        /\ keyShare' = keyShare /\ short' = short
    BY <1>0, <1>1 DEF CompleteRead, TypeOK, rows, locks
  <2>2. LocksOwned(t)'
    BY <1>0, <1>1, <2>1 DEF SessionOK, LocksOwned
  <2> QED BY <2>1, <2>2 DEF SessionOK, JobNamesRows
<1>2. CASE t # s
  <2>1. Keeps(t)
    BY <1>0, <1>2 DEF CompleteRead, Keeps, TypeOK, locks
  <2> QED BY <2>1, KeptSessionOK
<1> QED BY <1>1, <1>2

\* The lock is taken in the step that reads the lines.
LEMMA CompleteLockPOSessionsOK ==
  ASSUME IInv, [Next]_vars, NEW s \in Sessions, CompleteLockPO(s), NEW t \in Sessions
  PROVE  SessionOK(t)'
<1>0. TypeOK /\ SessionOK(s) /\ GrnsOfShippedPOs
  BY DEF IInv
<1>1. CASE t = s
  <2>1. /\ pc[t] = "lock_po" /\ pc'[t] = "post" /\ job' = job /\ grn' = grn
        /\ productLock' = productLock /\ JobPO(t)' = JobPO(t)
        /\ keyShare' = keyShare /\ short' = short
    BY <1>0, <1>1 DEF CompleteLockPO, TypeOK, rows, JobPO
  <2>2. /\ job[t].grn \in GRNs /\ grn[job[t].grn].status # "none" /\ JobPO(t) \in POs
    BY <1>0, <1>1, <2>1 DEF SessionOK, JobNamesRows, GrnsOfShippedPOs, JobPO
  <2>3. poLock'[JobPO(t)] = t /\ \A po \in POs : poLock'[po] = t => po = JobPO(t)
    <3>1. poLock' = [poLock EXCEPT ![JobPO(t)] = t]
      BY <1>1 DEF CompleteLockPO
    <3>2. \A po \in POs : poLock[po] # t
      BY <1>0, <1>1, <2>1 DEF SessionOK, LocksOwned
    <3> QED BY <1>0, <2>2, <3>1, <3>2 DEF TypeOK
  <2>4. LocksOwned(t)'
    BY <1>0, <1>1, <2>1, <2>3 DEF SessionOK, LocksOwned
  <2>5. JobNamesRows(t)'
    BY <2>1, <2>2 DEF JobNamesRows
  <2>6. /\ seen'[t] = line[job[t].grn] /\ todo'[t] = Received(job[t].grn)
        /\ Received(job[t].grn) # {}
    BY <1>0, <1>1 DEF CompleteLockPO, TypeOK
  <2>7. /\ \E p \in Products : seen'[t][p] > 0
        /\ \A p \in Products : /\ seen'[t][p] \in Quantities \cup {0}
                               /\ (p \in todo'[t]) <=> (seen'[t][p] > 0)
    BY <1>0, <2>2, <2>6 DEF Received, GrnsOfShippedPOs
  <2>8. CurrentFor(t)'
    BY <2>1, <2>3, <2>7 DEF CurrentFor
  <2> QED BY <2>4, <2>5, <2>8 DEF SessionOK
<1>2. CASE t # s
  <2>1. \A po \in POs : (poLock'[po] = t) <=> (poLock[po] = t)
    BY <1>0, <1>2, NoneAssumption DEF CompleteLockPO, TypeOK
  <2>2. Keeps(t)
    BY <1>0, <1>2, <2>1 DEF CompleteLockPO, Keeps, TypeOK
  <2> QED BY <2>2, KeptSessionOK
<1> QED BY <1>1, <1>2

\* The stock is read and written in the step that takes the product lock.
LEMMA CompletePostSessionsOK ==
  ASSUME IInv, [Next]_vars, NEW s \in Sessions, NEW r \in Products, CompletePost(s, r),
         NEW t \in Sessions
  PROVE  SessionOK(t)'
<1>0. TypeOK /\ SessionOK(s)
  BY DEF IInv
<1>1. CASE t = s
  <2>1. /\ pc[t] = "post" /\ pc' = pc /\ job' = job /\ grn' = grn /\ seen' = seen
        /\ poLock' = poLock /\ stock' = stock /\ keyShare' = keyShare /\ short' = short
        /\ productLock' = [productLock EXCEPT ![r] = t]
        /\ balance'[t] = [balance[t] EXCEPT ![r] = stock[r] + seen[t][r]]
        /\ todo'[t] = todo[t] \ {r} /\ JobPO(t)' = JobPO(t)
    BY <1>0, <1>1 DEF CompletePost, TypeOK, rows, JobPO
  <2>2. LocksOwned(t)' /\ JobNamesRows(t)' /\ CurrentFor(t)
    BY <1>0, <1>1, <2>1 DEF SessionOK, LocksOwned, JobNamesRows, TypeOK
  <2>3. ASSUME NEW p \in Products, seen[t][p] > 0, p \notin todo'[t]
        PROVE  productLock'[p] = t /\ balance'[t][p] = stock[p] + seen[t][p]
    <3>1. p # r => productLock[p] = t /\ balance[t][p] = stock[p] + seen[t][p]
      BY <2>1, <2>2, <2>3 DEF CurrentFor
    <3> QED BY <1>0, <2>1, <3>1 DEF TypeOK
  <2>4. CurrentFor(t)'
    BY <2>1, <2>2, <2>3 DEF CurrentFor
  <2> QED BY <2>2, <2>4 DEF SessionOK
<1>2. CASE t # s
  <2>1. \A p \in Products : (productLock'[p] = t) <=> (productLock[p] = t)
    BY <1>0, <1>2, NoneAssumption DEF CompletePost, TypeOK
  <2>2. Keeps(t)
    BY <1>0, <1>2, <2>1 DEF CompletePost, Keeps, TypeOK
  <2> QED BY <2>2, KeptSessionOK
<1> QED BY <1>1, <1>2

\* All lines are posted before the PO's lines are listed.
LEMMA CompleteListLinesSessionsOK ==
  ASSUME IInv, [Next]_vars, NEW s \in Sessions, CompleteListLines(s), NEW t \in Sessions
  PROVE  SessionOK(t)'
<1>0. TypeOK /\ SessionOK(s) /\ GrnsOfShippedPOs
  BY DEF IInv
<1>1. CASE t = s
  <2> DEFINE lines == {p \in Products : Ordered[JobPO(t)][p] > 0}
  <2>1. /\ pc[t] = "post" /\ pc'[t] = "assess" /\ todo[t] = {} /\ todo'[t] = lines
        /\ UNCHANGED <<rows, locks, job, seen, balance, short>>
        /\ JobPO(t)' = JobPO(t)
    BY <1>0, <1>1 DEF CompleteListLines, TypeOK, rows, JobPO
  <2>2. LocksOwned(t)' /\ JobNamesRows(t)' /\ CurrentFor(t)
    BY <1>0, <1>1, <2>1 DEF SessionOK, LocksOwned, JobNamesRows, TypeOK, rows, locks
  <2>3. JobPO(t) \in POs
    BY <1>0, <1>1, <2>1 DEF SessionOK, JobNamesRows, GrnsOfShippedPOs, JobPO
  <2>4. ASSUME NEW p \in Products, p \notin lines
        PROVE  short'[t][p] >= Outstanding(JobPO(t), p)'
    <3>1. short'[t][p] \in Nat
      BY <1>0, <2>1 DEF TypeOK
    <3>2. Outstanding(JobPO(t), p)' = Outstanding(JobPO(t), p)
      BY <2>1 DEF Outstanding, rows
    <3>3. /\ Ordered[JobPO(t)][p] \in Nat /\ ~(Ordered[JobPO(t)][p] > 0)
          /\ received[JobPO(t)][p] \in Nat
      BY <1>0, <2>3, <2>4, OrderedAssumption DEF TypeOK
    <3>4. Outstanding(JobPO(t), p) = 0
      BY <3>3 DEF Outstanding
    <3> QED BY <3>1, <3>2, <3>4
  <2>5. ASSUME NEW p \in Products, seen[t][p] > 0
        PROVE  productLock[p] = t /\ balance[t][p] = stock[p] + seen[t][p]
    BY <2>1, <2>2, <2>5 DEF CurrentFor
  <2>6. CurrentFor(t)'
    BY <2>1, <2>2, <2>4, <2>5 DEF CurrentFor, rows, locks
  <2> QED BY <2>2, <2>6 DEF SessionOK
<1>2. CASE t # s
  <2>1. Keeps(t)
    BY <1>0, <1>2 DEF CompleteListLines, Keeps, TypeOK, locks
  <2> QED BY <2>1, KeptSessionOK
<1> QED BY <1>1, <1>2

\* complete_grn decides whether a line is short: from then on that can only
\* shrink.
LEMMA CompleteAssessSessionsOK ==
  ASSUME IInv, [Next]_vars, NEW s \in Sessions, NEW r \in Products, CompleteAssess(s, r),
         NEW t \in Sessions
  PROVE  SessionOK(t)'
<1>0. TypeOK /\ SessionOK(s) /\ GrnsOfShippedPOs
  BY DEF IInv
<1>1. CASE t = s
  <2>1. /\ pc[t] = "assess" /\ todo'[t] = todo[t] \ {r}
        /\ UNCHANGED <<rows, locks, pc, job, seen, balance>>
        /\ short'[t] = [short[t] EXCEPT ![r] = Outstanding(JobPO(t), r)]
        /\ JobPO(t)' = JobPO(t)
    BY <1>0, <1>1 DEF CompleteAssess, TypeOK, rows, JobPO
  <2>2. LocksOwned(t)' /\ JobNamesRows(t)' /\ CurrentFor(t)
    BY <1>0, <1>1, <2>1 DEF SessionOK, LocksOwned, JobNamesRows, TypeOK, rows, locks
  <2>3. JobPO(t) \in POs
    BY <1>0, <1>1, <2>1 DEF SessionOK, JobNamesRows, GrnsOfShippedPOs, JobPO
  <2>4. ASSUME NEW p \in Products, p \notin todo'[t]
        PROVE  short'[t][p] >= Outstanding(JobPO(t), p)'
    <3>1. short'[t][p] = IF p = r THEN Outstanding(JobPO(t), p) ELSE short[t][p]
      BY <1>0, <2>1 DEF TypeOK
    <3>2. Outstanding(JobPO(t), p)' = Outstanding(JobPO(t), p)
      BY <2>1 DEF Outstanding, rows
    <3>3. Outstanding(JobPO(t), p) \in Nat
      BY <1>0, <2>3, OutstandingType
    <3>4. p # r => short[t][p] >= Outstanding(JobPO(t), p)
      BY <2>1, <2>2, <2>4 DEF CurrentFor
    <3> QED BY <3>1, <3>2, <3>3, <3>4
  <2>5. CurrentFor(t)'
    BY <2>1, <2>2, <2>4 DEF CurrentFor, rows, locks
  <2> QED BY <2>2, <2>5 DEF SessionOK
<1>2. CASE t # s
  <2>1. Keeps(t)
    BY <1>0, <1>2 DEF CompleteAssess, Keeps, TypeOK, locks
  <2> QED BY <2>1, KeptSessionOK
<1> QED BY <1>1, <1>2

\* A backorder is inserted: its session locks one row more.
LEMMA CompleteBackorderSessionsOK ==
  ASSUME IInv, [Next]_vars, NEW s \in Sessions, NEW r \in Products, CompleteBackorder(s, r),
         NEW t \in Sessions
  PROVE  SessionOK(t)'
<1>0. TypeOK /\ SessionOK(s) /\ GrnsOfShippedPOs
  BY DEF IInv
<1>1. CASE t = s
  <2>1. /\ pc[t] = "assess" /\ UNCHANGED <<rows, poLock, productLock, local>>
        /\ JobPO(t)' = JobPO(t)
    BY <1>0, <1>1 DEF CompleteBackorder, rows, local, JobPO
  <2>2. LocksOwned(t)' /\ JobNamesRows(t)' /\ CurrentFor(t)
    BY <1>0, <1>1, <2>1 DEF SessionOK, LocksOwned, JobNamesRows, rows, local
  <2>3. \A p \in Products : Outstanding(JobPO(t), p)' = Outstanding(JobPO(t), p)
    BY <2>1 DEF Outstanding, rows
  <2>4. CurrentFor(t)'
    BY <2>1, <2>2, <2>3 DEF CurrentFor, rows, local
  <2> QED BY <2>2, <2>4 DEF SessionOK
<1>2. CASE t # s
  <2>1. Keeps(t)
    BY <1>0, <1>2 DEF CompleteBackorder, Keeps, TypeOK, local
  <2> QED BY <2>1, KeptSessionOK
<1> QED BY <1>1, <1>2

\* Every step leaves every session with what it relies on.
LEMMA StepSessionsOK == IInv /\ [Next]_vars => \A t \in Sessions : SessionOK(t)'
<1> SUFFICES ASSUME IInv, [Next]_vars, NEW t \in Sessions PROVE SessionOK(t)'
  OBVIOUS
<1>1. ASSUME UNCHANGED local, UNCHANGED locks PROVE SessionOK(t)'
  <2>1. Keeps(t)
    BY <1>1 DEF Keeps, local, locks
  <2> QED BY <2>1, KeptSessionOK
<1>2. CASE \/ \E po \in POs : MarkShipped(po)
           \/ \E p \in Deletable : DeleteProduct(p)
           \/ \E g \in GRNs, po \in POs : CreateGrn(g, po)
           \/ UNCHANGED vars
  BY <1>1, <1>2 DEF MarkShipped, DeleteProduct, CreateGrn, vars
<1>3. ASSUME NEW s \in Sessions, EndTransaction(s) PROVE SessionOK(t)'
  BY <1>3, EndedSessionsOK
<1>4. ASSUME NEW s \in Sessions,
             \/ AddLineOverReceipt(s) \/ AddLineInsert(s) \/ AddLineDuplicate(s)
             \/ CompleteEmpty(s) \/ (\E p \in Products : CompleteProductGone(s, p))
             \/ CompleteCommit(s) \/ DeadlockAbort(s) \/ Abort(s)
      PROVE  SessionOK(t)'
  BY <1>3, <1>4
  DEF AddLineOverReceipt, AddLineInsert, AddLineDuplicate, CompleteEmpty,
      CompleteProductGone, CompleteCommit, DeadlockAbort, Abort
<1> QED
  BY <1>2, <1>4, AddLineReadSessionsOK, AddLineCheckSessionsOK, CompleteReadSessionsOK,
     CompleteLockPOSessionsOK, CompletePostSessionsOK, CompleteListLinesSessionsOK,
     CompleteAssessSessionsOK, CompleteBackorderSessionsOK
  DEF Next, Step

-----------------------------------------------------------------------------
(* The tables. *)

\* create_grn accepts shipped orders only, and no order goes back.
LEMMA StepGrns == IInv /\ [Next]_vars => GrnsOfShippedPOs'
<1> SUFFICES ASSUME IInv, [Next]_vars, NEW g \in GRNs
             PROVE  /\ grn'[g].status # "none" =>
                         /\ grn'[g].po \in POs
                         /\ poStatus'[grn'[g].po] \in {"shipped", "received"}
                    /\ \A p \in Products : line'[g][p] \in Quantities \cup {0}
  BY DEF GrnsOfShippedPOs
<1>0. TypeOK /\ GrnsOfShippedPOs
  BY DEF IInv
<1>1. ASSUME grn'[g].status # "none"
      PROVE  grn'[g].po \in POs /\ poStatus'[grn'[g].po] \in {"shipped", "received"}
  <2>1. CASE grn[g].status # "none"
    BY <1>0, <2>1, GrnStable, ShippedStays DEF GrnsOfShippedPOs
  <2>2. CASE grn[g].status = "none"
    <3>1. \A s \in Sessions : CompleteCommit(s) => job[s].grn # g
      BY <2>2 DEF IInv, SessionOK, JobNamesRows, CompleteCommit
    <3>2. \A s \in Sessions : ~CompleteCommit(s) \/ grn'[g] = grn[g]
      BY <1>0, <3>1 DEF CompleteCommit, TypeOK
    <3>3. \E h \in GRNs, po \in POs : CreateGrn(h, po)
      BY <1>1, <2>2, <3>2, RowSteps DEF rows, MarkShipped, DeleteProduct, AddLineInsert
    <3> QED BY <1>0, <1>1, <2>2, <3>3 DEF CreateGrn, TypeOK
  <2> QED BY <2>1, <2>2
<1>2. ASSUME NEW p \in Products
      PROVE  line'[g][p] \in Quantities \cup {0}
  <2>1. CASE \E s \in Sessions : AddLineInsert(s)
    <3>1. PICK s \in Sessions : AddLineInsert(s)
      BY <2>1
    <3>2. job[s].qty \in Quantities
      BY <3>1 DEF IInv, SessionOK, JobNamesRows, AddLineInsert
    <3>3. line' = [line EXCEPT ![job[s].grn][job[s].product] = job[s].qty]
      BY <3>1 DEF AddLineInsert
    <3>4. PICK h \in GRNs, r \in Products, n \in Quantities :
            line' = [line EXCEPT ![h] = [line[h] EXCEPT ![r] = n]]
      BY <3>1, <3>2, <3>3 DEF IInv, SessionOK, JobNamesRows, AddLineInsert
    <3>5. line \in [GRNs -> [Products -> Nat]]
      BY <1>0 DEF TypeOK
    <3>6. line'[g][p] = n \/ line'[g][p] = line[g][p]
      BY <3>4, <3>5
    <3> QED BY <1>0, <3>6 DEF GrnsOfShippedPOs
  <2>2. CASE line' = line
    BY <1>0, <2>2 DEF GrnsOfShippedPOs
  <2> QED
    BY <2>1, <2>2, RowSteps DEF rows, MarkShipped, DeleteProduct, CreateGrn, CompleteCommit
<1> QED BY <1>1, <1>2

\* A commit adds to each stock the quantity its completion read for the product.
LEMMA CommitAdds ==
  ASSUME IInv, NEW s \in Sessions, CompleteCommit(s), NEW p \in Products
  PROVE  /\ stock'[p] = stock[p] + seen[s][p]
         /\ seen[s][p] \in Quantities \cup {0}
         /\ seen[s][p] > 0 => balance[s][p] = stock[p] + seen[s][p]
<1>1. TypeOK /\ CurrentFor(s) /\ pc[s] = "assess"
  BY DEF IInv, SessionOK, CompleteCommit
<1>2. seen[s][p] \in Nat /\ stock[p] \in Int
  BY <1>1 DEF TypeOK
<1>3. seen[s][p] > 0 => balance[s][p] = stock[p] + seen[s][p]
  BY <1>1 DEF CurrentFor
<1>4. stock'[p] = IF seen[s][p] > 0 THEN balance[s][p] ELSE stock[p]
  BY DEF CompleteCommit
<1> QED BY <1>1, <1>2, <1>3, <1>4 DEF CurrentFor

\* A receipt never takes stock away.
LEMMA StepStock == IInv /\ [Next]_vars => StockNonNegative'
<1> SUFFICES ASSUME IInv, [Next]_vars, NEW p \in Products PROVE stock'[p] >= 0
  BY DEF StockNonNegative
<1>1. stock[p] \in Int /\ stock[p] >= 0
  BY DEF IInv, TypeOK, StockNonNegative
<1>2. ASSUME NEW s \in Sessions, CompleteCommit(s) PROVE stock'[p] >= 0
  <2>1. stock'[p] = stock[p] + seen[s][p] /\ seen[s][p] \in Quantities \cup {0}
    BY <1>2, CommitAdds
  <2>2. seen[s][p] \in Nat
    BY DEF IInv, TypeOK
  <2> QED BY <1>1, <2>1, <2>2
<1>3. CASE stock' = stock
  BY <1>1, <1>3
<1> QED
  BY <1>2, <1>3, RowSteps DEF rows, MarkShipped, CreateGrn, DeleteProduct, AddLineInsert

\* complete_grn marks an order received only when its lines are covered.
LEMMA StepReceived == IInv /\ [Next]_vars => ReceivedMeansCovered'
<1> SUFFICES ASSUME IInv, [Next]_vars, NEW po \in POs, poStatus'[po] = "received",
                    NEW p \in Products
             PROVE  received'[po][p] >= Ordered[po][p]
  BY DEF ReceivedMeansCovered
<1>0. TypeOK /\ TypeOK' /\ ReceivedMeansCovered
  BY StepType DEF IInv
<1>1. /\ Ordered[po][p] \in Nat /\ received[po][p] \in Nat /\ received'[po][p] \in Nat
      /\ received'[po][p] >= received[po][p]
  BY <1>0, ReceivedGrows, OrderedAssumption DEF TypeOK
<1>2. CASE poStatus[po] = "received"
  BY <1>0, <1>1, <1>2 DEF ReceivedMeansCovered
<1>3. ASSUME NEW s \in Sessions, CompleteCommit(s), poStatus[po] # "received"
      PROVE  received'[po][p] >= Ordered[po][p]
  <2>1. JobPO(s) = po /\ todo[s] = {} /\ \A r \in Products : short[s][r] = 0
    BY <1>0, <1>3 DEF CompleteCommit, TypeOK
  <2>2. short[s][p] >= Outstanding(po, p)
    BY <1>3, <2>1 DEF IInv, SessionOK, CurrentFor, CompleteCommit
  <2>3. Outstanding(po, p) = 0
    BY <1>0, <2>1, <2>2, OutstandingType
  <2> QED BY <1>0, <1>1, <2>3, OutstandingType
<1>4. CASE \E q \in POs : MarkShipped(q)
  BY <1>0, <1>2, <1>4 DEF MarkShipped, TypeOK
<1>5. CASE poStatus' = poStatus
  BY <1>2, <1>5
<1> QED
  BY <1>2, <1>3, <1>4, <1>5, RowSteps DEF rows, CreateGrn, DeleteProduct, AddLineInsert

-----------------------------------------------------------------------------
\* The initial state satisfies the inductive invariant.
LEMMA InitInvariant == Init => IInv
<1> SUFFICES ASSUME Init PROVE IInv
  OBVIOUS
<1>1. GrnsOfShippedPOs
  BY DEF Init, GrnsOfShippedPOs, NoGrn, Nothing
<1>2. \A s \in Sessions : SessionOK(s)
  <2>1. \A s \in Sessions : pc[s] = "idle" /\ s # None
    BY NoneAssumption DEF Init
  <2>2. /\ \A po \in POs : poLock[po] = None
        /\ \A p \in Products : productLock[p] = None
    BY DEF Init
  <2>3. \A s \in Sessions : keyShare[s] = {} /\ short[s] = Nothing
    BY DEF Init
  <2> QED BY <2>1, <2>2, <2>3 DEF SessionOK, JobNamesRows, LocksOwned
<1>3. StockNonNegative
  BY DEF Init, StockNonNegative, Nothing
<1>4. ReceivedMeansCovered
  BY DEF Init, ReceivedMeansCovered
<1> QED BY <1>1, <1>2, <1>3, <1>4, InitType DEF IInv

\* IInv holds in every reachable state: what a session in the middle of a call
\* read under its locks stays right until it commits.
THEOREM InductiveInvariant == Spec => []IInv
<1>1. Init => IInv
  BY InitInvariant
<1>2. IInv /\ [Next]_vars => IInv'
  BY StepType, StepSessionsOK, StepGrns, StepStock, StepReceived DEF IInv
<1> QED BY <1>1, <1>2, PTL DEF Spec

\* Every variable keeps its type.
THEOREM TypeCorrect == Spec => []TypeOK
<1>1. IInv => TypeOK
  BY DEF IInv
<1> QED BY <1>1, InductiveInvariant, PTL

\* complete_grn marks a PO received only when GRN lines cover all of it,
\* however many add_line and complete_grn calls overlap.
THEOREM ReceivedCovered == Spec => []ReceivedMeansCovered
<1>1. IInv => ReceivedMeansCovered
  BY DEF IInv
<1> QED BY <1>1, InductiveInvariant, PTL

\* complete_grn never moves a PO against LEGAL_TRANSITIONS, although it does
\* not ask validate_transition.
THEOREM Lifecycle == Spec => LifecycleLegal
<1>1. ASSUME IInv, [Next]_vars, NEW po \in POs, poStatus'[po] # poStatus[po]
      PROVE  LegalTransition(poStatus[po], poStatus'[po])
  <2>0. TypeOK
    BY <1>1 DEF IInv
  <2>1. CASE \E q \in POs : MarkShipped(q)
    BY <1>1, <2>0, <2>1 DEF MarkShipped, TypeOK
  <2>2. ASSUME NEW s \in Sessions, CompleteCommit(s)
        PROVE  LegalTransition(poStatus[po], poStatus'[po])
    <3>1. po = JobPO(s) /\ poStatus'[po] = "received"
      BY <1>1, <2>0, <2>2 DEF CompleteCommit, TypeOK
    <3>2. poStatus[po] \in {"shipped", "received"}
      BY <1>1, <2>2, <3>1
      DEF IInv, SessionOK, JobNamesRows, GrnsOfShippedPOs, CompleteCommit, JobPO
    <3> QED BY <1>1, <3>1, <3>2 DEF LegalTransition, LEGAL_TRANSITIONS
  <2>3. CASE poStatus' = poStatus
    BY <1>1, <2>3
  <2> QED
    BY <1>1, <2>1, <2>2, <2>3, RowSteps DEF rows, CreateGrn, DeleteProduct, AddLineInsert
<1>2. IInv /\ [Next]_vars =>
        [\A po \in POs : poStatus'[po] # poStatus[po] =>
           LegalTransition(poStatus[po], poStatus'[po])]_vars
  BY <1>1
<1> QED BY <1>2, InductiveInvariant, PTL DEF Spec, LifecycleLegal

\* Completions that wait for each other belong to different POs.
THEOREM DeadlocksCrossPOs == Spec => []DeadlockCrossesPOs
<1>1. ASSUME IInv, NEW s \in Sessions, NEW t \in Sessions,
             WaitsFor(s, t), WaitsFor(t, s), JobPO(s) = JobPO(t)
      PROVE  FALSE
  <2>0. TypeOK /\ SessionOK(s) /\ SessionOK(t) /\ s # t
    BY <1>1 DEF IInv, WaitsFor
  <2>1. pc[s] \in {"post", "assess"} /\ pc[t] \in {"post", "assess"}
    <3>1. ASSUME NEW u \in Sessions, NEW v \in Sessions, WaitsFor(u, v)
          PROVE  pc[v] \in {"post", "assess"}
      <4>1. SessionOK(u) /\ SessionOK(v)
        BY <1>1 DEF IInv
      <4>2. pc[u] # "idle" => JobPO(u) \in POs
        BY <1>1, <4>1 DEF IInv, SessionOK, JobNamesRows, GrnsOfShippedPOs, JobPO
      <4>3. todo[u] \subseteq Products
        BY <2>0 DEF TypeOK
      <4> QED BY <3>1, <4>1, <4>2, <4>3 DEF WaitsFor, SessionOK, LocksOwned, JobNamesRows
    <3> QED BY <1>1, <3>1
  <2>2. poLock[JobPO(s)] = s /\ poLock[JobPO(t)] = t
    BY <2>0, <2>1 DEF SessionOK, CurrentFor
  <2> QED BY <1>1, <2>0, <2>2
<1>2. IInv => DeadlockCrossesPOs
  BY <1>1 DEF DeadlockCrossesPOs
<1> QED BY <1>2, InductiveInvariant, PTL

-----------------------------------------------------------------------------
(* The promises of the abstract ledger SL, proved of its own specification. *)

\* Appending an entry whose balance continues the chain keeps it a chain, and
\* makes that balance the last one.
LEMMA AppendKeepsChain ==
  ASSUME NEW L \in Seq(SL!Entry), NEW e \in SL!Entry, SL!Chained(L),
         e.balance = SL!BalanceBefore(L, Len(L) + 1) + e.change
  PROVE  /\ SL!Chained(Append(L, e))
         /\ SL!BalanceBefore(Append(L, e), Len(Append(L, e)) + 1) = e.balance
<1> DEFINE M == Append(L, e)
           n == Len(L)
<1>1. /\ n \in Nat /\ Len(M) = n + 1 /\ M[n + 1] = e
      /\ \A i \in 1 .. n : M[i] = L[i]
  OBVIOUS
<1>2. \A i \in 1 .. n + 1 : SL!BalanceBefore(M, i) = SL!BalanceBefore(L, i)
  BY <1>1 DEF SL!BalanceBefore
<1>3. \A i \in 1 .. n : M[i].balance = SL!BalanceBefore(M, i) + M[i].change
  BY <1>1, <1>2 DEF SL!Chained
<1>4. M[n + 1].balance = SL!BalanceBefore(M, n + 1) + M[n + 1].change
  BY <1>1, <1>2
<1>5. SL!Chained(M)
  BY <1>1, <1>3, <1>4 DEF SL!Chained
<1>6. SL!BalanceBefore(M, Len(M) + 1) = e.balance
  BY <1>1 DEF SL!BalanceBefore
<1> QED BY <1>5, <1>6

\* What a receipt posts are integers.
LEMMA PostedChanges == Quantities \cup {0} \subseteq Int
BY QuantitiesAssumption

\* current_stock and the ledger rows keep their types.
THEOREM LedgerTypeCorrect == SL!Spec => []SL!TypeOK
<1>1. SL!Init => SL!TypeOK
  BY DEF SL!Init, SL!TypeOK
<1>2. SL!TypeOK /\ [SL!Next]_<<stock, ledger>> => SL!TypeOK'
  <2> SUFFICES ASSUME SL!TypeOK, [SL!Next]_<<stock, ledger>> PROVE SL!TypeOK'
    OBVIOUS
  <2>1. ASSUME NEW c \in [Products -> Quantities \cup {0}], NEW r \in GRNs, SL!Post(c, r)
        PROVE  SL!TypeOK'
    <3>1. \A p \in Products : c[p] \in Int /\ stock[p] \in Int
      BY PostedChanges DEF SL!TypeOK
    <3>2. stock' \in [Products -> Int]
      BY <2>1, <3>1 DEF SL!Post
    <3>3. ASSUME NEW p \in Products
          PROVE  ledger'[p] \in Seq(SL!Entry)
      <4>1. [change |-> c[p], balance |-> stock[p] + c[p], reference |-> r] \in SL!Entry
        BY <3>1 DEF SL!Entry
      <4>2. ledger[p] \in Seq(SL!Entry)
        BY DEF SL!TypeOK
      <4> QED BY <2>1, <4>1, <4>2 DEF SL!Post
    <3>4. ledger' \in [Products -> Seq(SL!Entry)]
      BY <2>1, <3>3 DEF SL!Post
    <3> QED BY <3>2, <3>4 DEF SL!TypeOK
  <2>2. CASE UNCHANGED <<stock, ledger>>
    BY <2>2 DEF SL!TypeOK
  <2> QED BY <2>1, <2>2 DEF SL!Next
<1> QED BY <1>1, <1>2, PTL DEF SL!Spec

\* The stock is the running balance of the ledger after every transaction.
THEOREM LedgerBalanced == SL!Spec => []SL!Balanced
<1>1. SL!Init => SL!Balanced
  <2> SUFFICES ASSUME SL!Init, NEW p \in Products
               PROVE  SL!Chained(ledger[p]) /\ stock[p] = SL!BalanceBefore(ledger[p], Len(ledger[p]) + 1)
    BY DEF SL!Balanced
  <2>1. ledger[p] = <<>> /\ Len(ledger[p]) = 0 /\ stock[p] = 0
    BY DEF SL!Init
  <2> QED BY <2>1 DEF SL!Chained, SL!BalanceBefore
<1>2. SL!TypeOK /\ SL!Balanced /\ [SL!Next]_<<stock, ledger>> => SL!Balanced'
  <2> SUFFICES ASSUME SL!TypeOK, SL!Balanced, [SL!Next]_<<stock, ledger>> PROVE SL!Balanced'
    OBVIOUS
  <2>1. ASSUME NEW c \in [Products -> Quantities \cup {0}], NEW r \in GRNs, SL!Post(c, r),
               NEW p \in Products
        PROVE  /\ SL!Chained(ledger'[p])
               /\ stock'[p] = SL!BalanceBefore(ledger'[p], Len(ledger'[p]) + 1)
    <3>1. c[p] \in Int /\ stock[p] \in Int /\ ledger[p] \in Seq(SL!Entry)
      BY PostedChanges DEF SL!TypeOK
    <3>2. /\ SL!Chained(ledger[p])
          /\ stock[p] = SL!BalanceBefore(ledger[p], Len(ledger[p]) + 1)
      BY DEF SL!Balanced
    <3>3. CASE c[p] = 0
      BY <2>1, <3>1, <3>2, <3>3 DEF SL!Post
    <3>4. CASE c[p] # 0
      <4> DEFINE e == [change |-> c[p], balance |-> stock[p] + c[p], reference |-> r]
      <4>1. ledger'[p] = Append(ledger[p], e) /\ stock'[p] = e.balance
        BY <2>1, <3>4 DEF SL!Post
      <4>2. e \in SL!Entry /\ e.balance = stock[p] + e.change
        BY <3>1 DEF SL!Entry
      <4> HIDE DEF e
      <4> QED BY <3>1, <3>2, <4>1, <4>2, AppendKeepsChain
    <3> QED BY <3>3, <3>4
  <2>2. CASE UNCHANGED <<stock, ledger>>
    BY <2>2 DEF SL!Balanced
  <2> QED BY <2>1, <2>2 DEF SL!Next, SL!Balanced
<1> QED BY <1>1, <1>2, LedgerTypeCorrect, PTL DEF SL!Spec

\* No transaction leaves a negative stock.
THEOREM LedgerNeverNegative == SL!Spec => []SL!NeverNegative
<1>1. SL!Init => SL!NeverNegative
  <2> SUFFICES ASSUME SL!Init, NEW p \in Products
               PROVE  stock[p] >= 0 /\ \A i \in 1 .. Len(ledger[p]) : ledger[p][i].balance >= 0
    BY DEF SL!NeverNegative
  <2>1. ledger[p] = <<>> /\ Len(ledger[p]) = 0 /\ stock[p] = 0
    BY DEF SL!Init
  <2> QED BY <2>1
<1>2. SL!TypeOK /\ SL!NeverNegative /\ [SL!Next]_<<stock, ledger>> => SL!NeverNegative'
  <2> SUFFICES ASSUME SL!TypeOK, SL!NeverNegative, [SL!Next]_<<stock, ledger>>
               PROVE  SL!NeverNegative'
    OBVIOUS
  <2>1. ASSUME NEW c \in [Products -> Quantities \cup {0}], NEW r \in GRNs, SL!Post(c, r),
               NEW p \in Products
        PROVE  /\ stock'[p] >= 0
               /\ \A i \in 1 .. Len(ledger'[p]) : ledger'[p][i].balance >= 0
    <3>1. stock[p] + c[p] >= 0 /\ stock'[p] = stock[p] + c[p]
      BY <2>1 DEF SL!Post
    <3>2. ledger[p] \in Seq(SL!Entry) /\ \A i \in 1 .. Len(ledger[p]) : ledger[p][i].balance >= 0
      BY DEF SL!TypeOK, SL!NeverNegative
    <3>3. CASE c[p] = 0
      BY <2>1, <3>1, <3>2, <3>3 DEF SL!Post
    <3>4. CASE c[p] # 0
      BY <2>1, <3>1, <3>2, <3>4 DEF SL!Post
    <3> QED BY <3>3, <3>4
  <2>2. CASE UNCHANGED <<stock, ledger>>
    BY <2>2 DEF SL!NeverNegative
  <2> QED BY <2>1, <2>2 DEF SL!Next, SL!NeverNegative
<1> QED BY <1>1, <1>2, LedgerTypeCorrect, PTL DEF SL!Spec

-----------------------------------------------------------------------------
(* Refinement of the abstract ledger. *)

\* A commit posts the quantities of the GRN's lines, one entry per product.
LEMMA CommitPosts ==
  ASSUME IInv, NEW s \in Sessions, CompleteCommit(s)
  PROVE  SL!Next
<1> DEFINE c == seen[s]
<1>1. TypeOK /\ CurrentFor(s) /\ job[s].grn \in GRNs
  BY DEF IInv, SessionOK, JobNamesRows, CompleteCommit
<1>2. c \in [Products -> Nat] /\ stock \in [Products -> Int]
  BY <1>1 DEF TypeOK
<1>3. c \in [Products -> Quantities \cup {0}]
  BY <1>1, <1>2 DEF CurrentFor
<1>4. \E p \in Products : c[p] # 0
  BY <1>1, <1>2 DEF CurrentFor
<1>5. \A p \in Products : stock[p] + c[p] >= 0
  BY <1>2 DEF IInv, StockNonNegative
<1>6. stock' = [p \in Products |-> stock[p] + c[p]]
  <2>1. \A p \in Products : stock'[p] = stock[p] + c[p]
    BY CommitAdds
  <2>2. stock' = [p \in Products |-> stock'[p]]
    BY DEF CompleteCommit
  <2> QED BY <2>1, <2>2
<1>7. ledger' = [p \in Products |->
                   IF c[p] = 0 THEN ledger[p]
                   ELSE Append(ledger[p], [change    |-> c[p],
                                           balance   |-> stock[p] + c[p],
                                           reference |-> job[s].grn])]
  <2>1. ASSUME NEW p \in Products
        PROVE  ledger'[p] = IF c[p] = 0 THEN ledger[p]
                            ELSE Append(ledger[p], [change    |-> c[p],
                                                    balance   |-> stock[p] + c[p],
                                                    reference |-> job[s].grn])
    <3>1. c[p] \in Nat /\ (c[p] > 0 => balance[s][p] = stock[p] + c[p])
      BY <1>2, CommitAdds
    <3> QED BY <3>1 DEF CompleteCommit
  <2>2. ledger' = [p \in Products |-> ledger'[p]]
    BY DEF CompleteCommit
  <2> HIDE DEF c
  <2> QED BY <2>1, <2>2
<1>8. SL!Post(c, job[s].grn)
  BY <1>4, <1>5, <1>6, <1>7 DEF SL!Post
<1> QED BY <1>1, <1>3, <1>8 DEF SL!Next

\* However receipts overlap, abort and restart, what they do to the stock and
\* to stock_ledger is a sequence of postings of the abstract ledger.
THEOREM LedgerRefinement == Spec => ImplementsStockLedger
<1>1. Init => SL!Init
  BY DEF Init, SL!Init, Nothing
<1>2. IInv /\ [Next]_vars => [SL!Next]_<<stock, ledger>>
  <2> SUFFICES ASSUME IInv, [Next]_vars PROVE [SL!Next]_<<stock, ledger>>
    OBVIOUS
  <2>1. CASE \E s \in Sessions : CompleteCommit(s)
    BY <2>1, CommitPosts
  <2>2. CASE stock' = stock /\ ledger' = ledger
    BY <2>2
  <2>3. CASE ~ \E s \in Sessions : CompleteCommit(s)
    <3>1. stock' = stock
      BY <2>3, RowSteps DEF rows, MarkShipped, CreateGrn, DeleteProduct, AddLineInsert
    <3>2. ledger' = ledger
      BY <2>3, RowSteps DEF rows, MarkShipped, CreateGrn, DeleteProduct, AddLineInsert
    <3> QED BY <2>2, <3>1, <3>2
  <2> QED BY <2>1, <2>3
<1> QED BY <1>1, <1>2, InductiveInvariant, PTL DEF Spec, ImplementsStockLedger, SL!Spec

\* So the stock of every product is the running balance of its ledger: no
\* receipt is lost between the read of current_stock and its write.
THEOREM StockBalanced == Spec => []StockIsLedgerBalance
<1>1. SL!Balanced => StockIsLedgerBalance
  BY DEF StockIsLedgerBalance
<1> QED BY <1>1, LedgerRefinement, LedgerBalanced, PTL DEF ImplementsStockLedger

-----------------------------------------------------------------------------
(* What steps write: lines only by add_line, entries, backorders and the end   *)
(* of a GRN only by complete_grn.                                              *)

\* Only the insert of a line changes grn_lines.
LEMMA LineSteps ==
  ASSUME [Next]_vars
  PROVE  line' = line \/ \E s \in Sessions : AddLineInsert(s)
BY RowSteps DEF rows, MarkShipped, CreateGrn, DeleteProduct, CompleteCommit

\* Only the commit of a completion writes stock_ledger and backorders.
LEMMA EntrySteps ==
  ASSUME [Next]_vars
  PROVE  \/ ledger' = ledger /\ backorders' = backorders
         \/ \E s \in Sessions : CompleteCommit(s)
<1>1. CASE ~ \E s \in Sessions : CompleteCommit(s)
  <2>1. ledger' = ledger
    BY <1>1, RowSteps DEF rows, MarkShipped, CreateGrn, DeleteProduct, AddLineInsert
  <2>2. backorders' = backorders
    BY <1>1, RowSteps DEF rows, MarkShipped, CreateGrn, DeleteProduct, AddLineInsert
  <2> QED BY <2>1, <2>2
<1> QED BY <1>1

\* GRNs are written by create_grn and by the commit of a completion.
LEMMA GrnSteps ==
  ASSUME [Next]_vars
  PROVE  \/ grn' = grn
         \/ \E g \in GRNs, po \in POs : CreateGrn(g, po)
         \/ \E s \in Sessions : CompleteCommit(s)
BY RowSteps DEF rows, MarkShipped, DeleteProduct, AddLineInsert

\* A completed GRN stays completed, even when a second completion commits it.
LEMMA CompletedStays ==
  ASSUME IInv, [Next]_vars, NEW g \in GRNs, grn[g].status = "completed"
  PROVE  grn'[g].status = "completed"
<1>1. TypeOK
  BY DEF IInv
<1>2. ASSUME NEW h \in GRNs, NEW po \in POs, CreateGrn(h, po)
      PROVE  grn'[g].status = "completed"
  <2>1. h # g
    BY <1>2 DEF CreateGrn
  <2>2. grn' = [grn EXCEPT ![h] = [status |-> "open", po |-> po, reorder |-> FALSE]]
    BY <1>2 DEF CreateGrn
  <2> QED BY <1>1, <2>1, <2>2 DEF TypeOK
<1>3. ASSUME NEW s \in Sessions, CompleteCommit(s)
      PROVE  grn'[g].status = "completed"
  <2>1. grn' = [grn EXCEPT ![job[s].grn] = grn'[job[s].grn]]
    BY <1>1, <1>3 DEF CompleteCommit, TypeOK
  <2>2. job[s].grn \in GRNs
    BY <1>3 DEF IInv, SessionOK, JobNamesRows, CompleteCommit
  <2>3. grn'[job[s].grn].status = "completed"
    BY <1>1, <1>3, <2>2 DEF CompleteCommit, TypeOK
  <2> QED BY <1>1, <2>1, <2>3 DEF TypeOK
<1> QED BY <1>2, <1>3, GrnSteps

\* A line that is there keeps its quantity: uq_grn_lines_grn_product refuses a
\* second one.
LEMMA LineKept ==
  ASSUME IInv, [Next]_vars, NEW g \in GRNs, NEW p \in Products, line[g][p] > 0
  PROVE  line'[g][p] = line[g][p]
<1>1. TypeOK
  BY DEF IInv
<1>2. ASSUME NEW s \in Sessions, AddLineInsert(s) PROVE line'[g][p] = line[g][p]
  <2>1. /\ job[s].grn \in GRNs /\ job[s].product \in Products
        /\ line[job[s].grn][job[s].product] = 0
        /\ line' = [line EXCEPT ![job[s].grn][job[s].product] = job[s].qty]
    BY <1>2 DEF IInv, SessionOK, JobNamesRows, AddLineInsert
  <2>2. PICK h \in GRNs, q \in Products :
          /\ line[h][q] = 0
          /\ line' = [line EXCEPT ![h] = [line[h] EXCEPT ![q] = job[s].qty]]
    BY <2>1
  <2>3. h # g \/ q # p
    BY <2>2
  <2> QED BY <1>1, <2>2, <2>3 DEF TypeOK
<1> QED BY <1>2, LineSteps

\* The entry a commit posts for a product, if it posts one.
Posted(s, p) == [change |-> seen[s][p], balance |-> balance[s][p], reference |-> job[s].grn]

\* What a commit appends to the ledger of a product.
LEMMA CommitEntries ==
  ASSUME IInv, NEW s \in Sessions, CompleteCommit(s), NEW p \in Products
  PROVE  /\ Posted(s, p) \in Entry /\ job[s].grn \in GRNs /\ ledger[p] \in Seq(Entry)
         /\ seen[s][p] \in Quantities \cup {0}
         /\ ledger'[p] = IF seen[s][p] > 0 THEN Append(ledger[p], Posted(s, p)) ELSE ledger[p]
<1>1. /\ TypeOK /\ job[s].grn \in GRNs /\ seen[s][p] \in Quantities \cup {0}
  BY CommitAdds DEF IInv, SessionOK, JobNamesRows, CompleteCommit
<1>2. seen[s][p] \in Int /\ balance[s][p] \in Int /\ ledger[p] \in Seq(Entry)
  BY <1>1 DEF TypeOK
<1>3. Posted(s, p) \in Entry
  BY <1>1, <1>2 DEF Posted, Entry
<1> QED BY <1>1, <1>2, <1>3 DEF CompleteCommit, Posted

-----------------------------------------------------------------------------
(* Ledger entries and completed GRNs. *)

\* A completion under way posts what the lines are.
SeenIsLine(s) ==
  pc[s] \in {"post", "assess"} => \A p \in Products :
    seen[s][p] > 0 => line[job[s].grn][p] = seen[s][p]

\* Every entry records a receipt.
EntriesPositive == \A p \in Products : \A i \in 1 .. Len(ledger[p]) : ledger[p][i].change > 0

LedgerIInv ==
  /\ LedgerMatchesGrns
  /\ EntriesPositive
  /\ \A s \in Sessions : SeenIsLine(s)

\* The lines a completion read stay as they are until it commits.
LEMMA SeenStep ==
  ASSUME IInv, [Next]_vars, NEW s \in Sessions, SeenIsLine(s)
  PROVE  SeenIsLine(s)'
<1>0. TypeOK
  BY DEF IInv
<1>1. ASSUME pc[s] \in {"post", "assess"}, seen'[s] = seen[s], job'[s] = job[s]
      PROVE  SeenIsLine(s)'
  <2>1. job[s].grn \in GRNs
    BY <1>1 DEF IInv, SessionOK, JobNamesRows
  <2> QED BY <1>1, <2>1, LineKept DEF SeenIsLine
<1>2. CASE pc'[s] \notin {"post", "assess"}
  BY <1>2 DEF SeenIsLine
<1>3. ASSUME NEW t \in Sessions, EndTransaction(t)
      PROVE  SeenIsLine(s)'
  <2>1. s # t => pc'[s] = pc[s] /\ seen'[s] = seen[s] /\ job'[s] = job[s]
    BY <1>0, <1>3 DEF EndTransaction, TypeOK
  <2>2. s = t => pc'[s] = "idle"
    BY <1>0, <1>3 DEF EndTransaction, TypeOK
  <2> QED BY <1>1, <1>2, <2>1, <2>2
<1>4. ASSUME NEW t \in Sessions, CompleteLockPO(t)
      PROVE  SeenIsLine(s)'
  <2>1. CASE s = t
    <3>1. seen'[s] = line[job[s].grn] /\ job' = job /\ line' = line
      BY <1>0, <1>4, <2>1 DEF CompleteLockPO, TypeOK, rows
    <3> QED BY <3>1 DEF SeenIsLine
  <2>2. CASE s # t
    <3>1. pc'[s] = pc[s] /\ seen'[s] = seen[s] /\ job'[s] = job[s]
      BY <1>0, <1>4, <2>2 DEF CompleteLockPO, TypeOK
    <3> QED BY <1>1, <1>2, <3>1
  <2> QED BY <2>1, <2>2
<1>5. ASSUME NEW t \in Sessions,
             \/ \E p \in Products : CompletePost(t, p)
             \/ CompleteListLines(t)
             \/ \E p \in Products : CompleteAssess(t, p) \/ CompleteBackorder(t, p)
      PROVE  SeenIsLine(s)'
  <2>1. /\ seen' = seen /\ job' = job
        /\ pc'[s] \in {"post", "assess"} => pc[s] \in {"post", "assess"}
    BY <1>0, <1>5
    DEF CompletePost, CompleteListLines, CompleteAssess, CompleteBackorder, TypeOK, local
  <2> QED BY <1>1, <1>2, <2>1
<1>6. ASSUME NEW t \in Sessions,
             \/ \E g \in GRNs, p \in Products, q \in Quantities : AddLineRead(t, g, p, q)
             \/ \E g \in GRNs : CompleteRead(t, g)
             \/ AddLineCheck(t)
      PROVE  SeenIsLine(s)'
  <2>1. \/ pc'[s] \notin {"post", "assess"}
        \/ pc'[s] = pc[s] /\ seen'[s] = seen[s] /\ job'[s] = job[s]
    BY <1>0, <1>6 DEF AddLineRead, CompleteRead, AddLineCheck, TypeOK
  <2> QED BY <1>1, <1>2, <2>1
<1>7. CASE UNCHANGED local
  <2>1. pc' = pc /\ seen' = seen /\ job' = job
    BY <1>7 DEF local
  <2> QED BY <1>1, <1>2, <2>1
<1>8. CASE \/ \E po \in POs : MarkShipped(po)
           \/ \E p \in Deletable : DeleteProduct(p)
           \/ \E g \in GRNs, po \in POs : CreateGrn(g, po)
           \/ UNCHANGED vars
  BY <1>7, <1>8 DEF MarkShipped, DeleteProduct, CreateGrn, vars
<1> QED
  BY <1>3, <1>4, <1>5, <1>6, <1>8
  DEF Next, Step, AddLineOverReceipt, AddLineInsert, AddLineDuplicate, CompleteEmpty,
      CompleteProductGone, CompleteCommit, DeadlockAbort, Abort

\* What an entry of the ledger says stays true of its GRN.
LEMMA EntriesKept ==
  ASSUME IInv, LedgerIInv, [Next]_vars,
         NEW p \in Products, NEW i \in 1 .. Len(ledger[p])
  PROVE  LET e == ledger[p][i]
         IN  grn'[e.reference].status = "completed" /\ line'[e.reference][p] = e.change
<1> DEFINE e == ledger[p][i]
<1>1. ledger[p] \in Seq(Entry)
  BY DEF IInv, TypeOK
<1>2. e.reference \in GRNs
  <2>1. e \in Entry
    BY <1>1
  <2> HIDE DEF e
  <2> QED BY <2>1 DEF Entry
<1>3. grn[e.reference].status = "completed" /\ line[e.reference][p] = e.change /\ e.change > 0
  BY DEF LedgerIInv, LedgerMatchesGrns, EntriesPositive
<1> QED BY <1>2, <1>3, CompletedStays, LineKept

\* A commit leaves entries and GRNs telling the same story.
LEMMA CommitMatches ==
  ASSUME IInv, LedgerIInv, NEW s \in Sessions, CompleteCommit(s)
  PROVE  LedgerMatchesGrns' /\ EntriesPositive'
<1> DEFINE g == job[s].grn
<1>0. TypeOK /\ SeenIsLine(s) /\ CurrentFor(s) /\ Next /\ g \in GRNs
  BY DEF IInv, SessionOK, JobNamesRows, LedgerIInv, CompleteCommit, Next, Step
<1>1. /\ grn' = [grn EXCEPT ![g] = grn'[g]] /\ grn'[g].status = "completed"
      /\ line' = line /\ pc[s] = "assess"
  BY <1>0 DEF CompleteCommit, TypeOK
<1>2. ASSUME NEW p \in Products, NEW i \in 1 .. Len(ledger'[p])
      PROVE  /\ grn'[ledger'[p][i].reference].status = "completed"
             /\ line'[ledger'[p][i].reference][p] = ledger'[p][i].change
             /\ ledger'[p][i].change > 0
  <2>1. CASE ledger'[p] = ledger[p]
    BY <1>0, <1>2, <2>1, EntriesKept DEF LedgerIInv, EntriesPositive
  <2>2. CASE ledger'[p] = Append(ledger[p], Posted(s, p)) /\ seen[s][p] > 0
    <3>1. ledger[p] \in Seq(Entry) /\ Posted(s, p) \in Entry
      BY CommitEntries
    <3>2. CASE i \in 1 .. Len(ledger[p])
      <4>1. ledger'[p][i] = ledger[p][i]
        BY <2>2, <3>1, <3>2
      <4> QED BY <1>0, <3>2, <4>1, EntriesKept DEF LedgerIInv, EntriesPositive
    <3>3. CASE i = Len(ledger[p]) + 1
      <4>1. ledger'[p][i] = Posted(s, p)
        BY <2>2, <3>1, <3>3
      <4>2. line[g][p] = seen[s][p]
        BY <1>0, <1>1, <2>2 DEF SeenIsLine
      <4> QED BY <1>1, <2>2, <4>1, <4>2 DEF Posted
    <3>4. i \in 1 .. Len(ledger[p]) + 1
      BY <1>2, <2>2, <3>1
    <3>5. Len(ledger[p]) \in Nat
      BY <3>1
    <3> QED BY <3>2, <3>3, <3>4, <3>5
  <2> QED BY <2>1, <2>2, CommitEntries
<1>3. ASSUME NEW h \in GRNs, grn'[h].status = "completed"
      PROVE  \E p \in Products : \E i \in 1 .. Len(ledger'[p]) : ledger'[p][i].reference = h
  <2>1. CASE h = g
    <3>1. PICK p \in Products : seen[s][p] > 0
      BY <1>0 DEF CurrentFor
    <3>2. ledger'[p] = Append(ledger[p], Posted(s, p)) /\ ledger[p] \in Seq(Entry)
      BY <3>1, CommitEntries
    <3>3. /\ Len(ledger[p]) + 1 \in 1 .. Len(ledger'[p])
          /\ ledger'[p][Len(ledger[p]) + 1] = Posted(s, p)
      BY <3>2
    <3> QED BY <2>1, <3>3 DEF Posted
  <2>2. CASE h # g
    <3>1. grn[h].status = "completed"
      BY <1>0, <1>1, <1>3, <2>2 DEF TypeOK
    <3>2. PICK p \in Products : \E i \in 1 .. Len(ledger[p]) : ledger[p][i].reference = h
      BY <3>1 DEF LedgerIInv, LedgerMatchesGrns
    <3>3. PICK i \in 1 .. Len(ledger[p]) : ledger[p][i].reference = h
      BY <3>2
    <3>4. /\ Posted(s, p) \in Entry /\ ledger[p] \in Seq(Entry)
          /\ ledger'[p] \in {ledger[p], Append(ledger[p], Posted(s, p))}
      BY CommitEntries
    <3>5. i \in 1 .. Len(ledger'[p]) /\ ledger'[p][i] = ledger[p][i]
      BY <3>4
    <3> QED BY <3>3, <3>5
  <2> QED BY <2>1, <2>2
<1> QED BY <1>2, <1>3 DEF LedgerMatchesGrns, EntriesPositive

\* Only the commit of a completion completes a GRN.
LEMMA NotCompletedBefore ==
  ASSUME IInv, [Next]_vars, ~ \E s \in Sessions : CompleteCommit(s),
         NEW g \in GRNs, grn'[g].status = "completed"
  PROVE  grn[g].status = "completed"
<1>1. TypeOK
  BY DEF IInv
<1>2. ASSUME NEW h \in GRNs, NEW po \in POs, CreateGrn(h, po)
      PROVE  grn[g].status = "completed"
  <2>1. grn' = [grn EXCEPT ![h] = [status |-> "open", po |-> po, reorder |-> FALSE]]
    BY <1>2 DEF CreateGrn
  <2>2. h # g
    BY <1>1, <2>1 DEF TypeOK
  <2> QED BY <1>1, <2>1, <2>2 DEF TypeOK
<1> QED BY <1>2, GrnSteps

\* Steps other than a commit leave the ledger, and what it says stays true.
LEMMA MatchesStep ==
  ASSUME IInv, LedgerIInv, [Next]_vars
  PROVE  LedgerMatchesGrns' /\ EntriesPositive'
<1>1. CASE \E s \in Sessions : CompleteCommit(s)
  BY <1>1, CommitMatches
<1>2. CASE ledger' = ledger /\ ~ \E s \in Sessions : CompleteCommit(s)
  <2>1. EntriesPositive'
    BY <1>2 DEF LedgerIInv, EntriesPositive
  <2>2. ASSUME NEW g \in GRNs, grn'[g].status = "completed"
        PROVE  grn[g].status = "completed"
    BY <1>2, <2>2, NotCompletedBefore
  <2> QED BY <1>2, <2>1, <2>2, EntriesKept DEF LedgerIInv, LedgerMatchesGrns
<1> QED BY <1>1, <1>2, EntrySteps

\* A ledger entry belongs to a completed GRN whose line has its quantity, and a
\* completed GRN has entries, whatever receipts overlap or are rolled back.
THEOREM LedgerTellsGrns == Spec => []LedgerMatchesGrns
<1>1. Init => LedgerIInv
  <2> SUFFICES ASSUME Init PROVE LedgerIInv
    OBVIOUS
  <2>1. /\ \A p \in Products : Len(ledger[p]) = 0
        /\ \A g \in GRNs : grn[g].status = "none"
        /\ \A s \in Sessions : pc[s] = "idle"
    BY DEF Init, NoGrn
  <2> QED BY <2>1 DEF LedgerIInv, LedgerMatchesGrns, EntriesPositive, SeenIsLine
<1>2. IInv /\ LedgerIInv /\ [Next]_vars => LedgerIInv'
  BY MatchesStep, SeenStep DEF LedgerIInv
<1>3. LedgerIInv => LedgerMatchesGrns
  BY DEF LedgerIInv
<1> QED BY <1>1, <1>2, <1>3, InductiveInvariant, PTL DEF Spec

-----------------------------------------------------------------------------
(* The auto-reorder flag of a completion. *)

\* The flag a completion leaves on its GRN is the answer for the stock it wrote
\* itself, although other receipts go on while it works.
THEOREM ReorderFlagIsCurrent == Spec => ReorderFlagCurrent
<1>1. ASSUME IInv, [Next]_vars, NEW g \in GRNs,
             NEW posted,
             posted = {p \in Products : \E i \in 1 .. Len(ledger'[p]) :
                         i > Len(ledger[p]) /\ ledger'[p][i].reference = g},
             posted # {}
      PROVE  grn'[g].reorder <=> \E p \in posted : stock'[p] <= Threshold(p)
  <2>1. TypeOK
    BY <1>1 DEF IInv
  <2>2. ledger' # ledger
    <3> SUFFICES ASSUME ledger' = ledger, NEW p \in Products,
                        NEW i \in 1 .. Len(ledger[p]), i > Len(ledger[p])
                 PROVE  FALSE
      BY <1>1
    <3>1. Len(ledger[p]) \in Nat
      BY <2>1 DEF TypeOK
    <3> QED BY <3>1
  <2>3. PICK s \in Sessions : CompleteCommit(s)
    BY <1>1, <2>2, EntrySteps
  <2>4. \A p \in Products : p \in posted <=> seen[s][p] > 0 /\ job[s].grn = g
    <3> SUFFICES ASSUME NEW p \in Products
                 PROVE  p \in posted <=> seen[s][p] > 0 /\ job[s].grn = g
      OBVIOUS
    <3>1. /\ Posted(s, p) \in Entry /\ ledger[p] \in Seq(Entry)
          /\ ledger'[p] = IF seen[s][p] > 0 THEN Append(ledger[p], Posted(s, p)) ELSE ledger[p]
      BY <1>1, <2>3, CommitEntries
    <3>2. Len(ledger[p]) \in Nat
      BY <3>1
    <3>3. CASE seen[s][p] > 0
      <4>1. /\ Len(ledger'[p]) = Len(ledger[p]) + 1
            /\ ledger'[p][Len(ledger[p]) + 1] = Posted(s, p)
        BY <3>1, <3>3
      <4>2. p \in posted <=> Posted(s, p).reference = g
        BY <1>1, <3>2, <4>1
      <4> QED BY <3>3, <4>2 DEF Posted
    <3>4. CASE ~(seen[s][p] > 0)
      <4>1. ledger'[p] = ledger[p]
        BY <3>1, <3>4
      <4> QED BY <1>1, <3>2, <3>4, <4>1
    <3> QED BY <3>3, <3>4
  <2>5. job[s].grn = g
    BY <1>1, <2>4
  <2>6. posted = {p \in Products : seen[s][p] > 0}
    BY <1>1, <2>4, <2>5
  <2>7. grn'[g].reorder = \E p \in posted : NeedsReorder(s, p)
    BY <1>1, <2>1, <2>3, <2>5, <2>6 DEF CompleteCommit, TypeOK
  <2>8. \A p \in posted : stock'[p] = balance[s][p]
    BY <2>3, <2>6 DEF CompleteCommit
  <2> QED BY <2>7, <2>8 DEF NeedsReorder
<1>2. IInv /\ [Next]_vars =>
        \A g \in GRNs : LET posted == {p \in Products : \E i \in 1 .. Len(ledger'[p]) :
                                         i > Len(ledger[p]) /\ ledger'[p][i].reference = g}
                        IN posted # {} =>
                             (grn'[g].reorder <=> \E p \in posted : stock'[p] <= Threshold(p))
  BY <1>1
<1> QED BY <1>2, InductiveInvariant, PTL DEF Spec, ReorderFlagCurrent

-----------------------------------------------------------------------------
(* Backorders of one PO line. *)

\* No backorder in b asks for less than n.
AtLeast(b, n) == \A i \in 1 .. Len(b) : n <= b[i].outstanding

\* The backorders b of a line on which q was ordered never ask for more.
Shrinking(b, q) ==
  \A i \in 1 .. Len(b) :
    /\ 0 < b[i].outstanding /\ b[i].outstanding + b[i].received = q
    /\ \A j \in 1 .. i : b[i].outstanding <= b[j].outstanding

\* A new backorder that asks for at least n changes nothing about n.
LEMMA AppendAtLeast ==
  ASSUME NEW b \in Seq(Backorder), NEW e \in Backorder, NEW n \in Nat,
         AtLeast(b, n), n <= e.outstanding
  PROVE  AtLeast(Append(b, e), n)
<1> SUFFICES ASSUME NEW i \in 1 .. Len(Append(b, e))
             PROVE  n <= Append(b, e)[i].outstanding
  BY DEF AtLeast
<1>1. Len(b) \in Nat /\ i \in 1 .. Len(b) + 1
  OBVIOUS
<1>2. CASE i \in 1 .. Len(b)
  BY <1>2 DEF AtLeast
<1>3. CASE i = Len(b) + 1
  BY <1>3
<1> QED BY <1>1, <1>2, <1>3

\* A backorder for no more than any before it keeps them shrinking.
LEMMA AppendShrinks ==
  ASSUME NEW b \in Seq(Backorder), NEW e \in Backorder, NEW q \in Nat,
         Shrinking(b, q), AtLeast(b, e.outstanding),
         0 < e.outstanding, e.outstanding + e.received = q
  PROVE  Shrinking(Append(b, e), q)
<1> DEFINE c == Append(b, e)
<1>1. /\ Len(b) \in Nat /\ Len(c) = Len(b) + 1 /\ c[Len(b) + 1] = e
      /\ \A i \in 1 .. Len(b) : c[i] = b[i]
      /\ e.outstanding \in Nat
  BY DEF Backorder
<1> HIDE DEF c
<1> SUFFICES ASSUME NEW i \in 1 .. Len(c)
             PROVE  /\ 0 < c[i].outstanding /\ c[i].outstanding + c[i].received = q
                    /\ \A j \in 1 .. i : c[i].outstanding <= c[j].outstanding
  BY DEF Shrinking, c
<1>2. CASE i \in 1 .. Len(b)
  <2>1. \A j \in 1 .. i : j \in 1 .. Len(b)
    BY <1>1, <1>2
  <2> QED BY <1>1, <1>2, <2>1 DEF Shrinking
<1>3. CASE i = Len(b) + 1
  <2>1. \A j \in 1 .. i : j \in 1 .. Len(b) \/ j = Len(b) + 1
    BY <1>1, <1>3
  <2> QED BY <1>1, <1>3, <2>1 DEF AtLeast
<1> QED BY <1>1, <1>2, <1>3

\* What a completion is about to order again is no more than any backorder
\* before it asked for.
ShortLeast(s) ==
  pc[s] = "assess" => \A p \in Products : AtLeast(backorders[JobPO(s)][p], short[s][p])

BackorderIInv ==
  /\ \A po \in POs, p \in Products :
       /\ Shrinking(backorders[po][p], Ordered[po][p])
       /\ AtLeast(backorders[po][p], Outstanding(po, p))
  /\ \A s \in Sessions : ShortLeast(s)

\* What a commit does to the backorders of a line of its PO, and of another PO.
LEMMA CommitBackorders ==
  ASSUME IInv, NEW s \in Sessions, CompleteCommit(s), NEW po \in POs, NEW p \in Products
  PROVE  LET e == [received    |-> Ordered[po][p] - short[s][p],
                   outstanding |-> short[s][p],
                   grn         |-> job[s].grn]
         IN  /\ backorders[po][p] \in Seq(Backorder) /\ e \in Backorder
             /\ backorders'[po][p] = IF po = JobPO(s) /\ short[s][p] > 0
                                     THEN Append(backorders[po][p], e) ELSE backorders[po][p]
<1> DEFINE e == [received    |-> Ordered[po][p] - short[s][p],
                 outstanding |-> short[s][p],
                 grn         |-> job[s].grn]
<1>1. TypeOK /\ job[s].grn \in GRNs
  BY DEF IInv, SessionOK, JobNamesRows, CompleteCommit
<1>2. /\ backorders[po][p] \in Seq(Backorder) /\ short[s][p] \in Nat
      /\ Ordered[po][p] \in Nat
  BY <1>1, OrderedAssumption DEF TypeOK
<1>3. e \in Backorder
  BY <1>1, <1>2 DEF Backorder
<1>4. CASE po = JobPO(s)
  <2>1. backorders'[po] = [q \in Products |->
           IF short[s][q] > 0
           THEN Append(backorders[po][q], [received    |-> Ordered[po][q] - short[s][q],
                                           outstanding |-> short[s][q],
                                           grn         |-> job[s].grn])
           ELSE backorders[po][q]]
    BY <1>1, <1>4 DEF CompleteCommit, TypeOK
  <2> QED BY <1>2, <1>3, <1>4, <2>1
<1>5. CASE po # JobPO(s)
  <2>1. backorders'[po] = backorders[po]
    BY <1>1, <1>5 DEF CompleteCommit, TypeOK
  <2> QED BY <1>2, <1>3, <1>5, <2>1
<1> QED BY <1>4, <1>5

\* A completion that assesses the PO's lines either takes its step of listing
\* or assessing now, or was at it before with the same figures.
LEMMA KeepsAssessing ==
  ASSUME TypeOK, [Next]_vars, NEW t \in Sessions, pc'[t] = "assess", ~CompleteListLines(t),
         \A p \in Products : ~CompleteAssess(t, p)
  PROVE  pc[t] = "assess" /\ short'[t] = short[t] /\ job'[t] = job[t]
<1>1. ASSUME NEW s \in Sessions, EndTransaction(s)
      PROVE  pc[t] = "assess" /\ short'[t] = short[t] /\ job'[t] = job[t]
  <2>1. s # t
    BY <1>1 DEF EndTransaction, TypeOK
  <2> QED BY <1>1, <2>1 DEF EndTransaction, TypeOK
<1>2. ASSUME NEW s \in Sessions,
             \/ \E g \in GRNs, p \in Products, q \in Quantities : AddLineRead(s, g, p, q)
             \/ \E g \in GRNs : CompleteRead(s, g)
             \/ AddLineCheck(s)
      PROVE  pc[t] = "assess" /\ short'[t] = short[t] /\ job'[t] = job[t]
  <2>1. s # t
    BY <1>2 DEF AddLineRead, CompleteRead, AddLineCheck, TypeOK
  <2> QED BY <1>2, <2>1 DEF AddLineRead, CompleteRead, AddLineCheck, TypeOK
<1>3. ASSUME NEW s \in Sessions,
             \/ CompleteLockPO(s)
             \/ \E p \in Products : CompletePost(s, p)
             \/ CompleteListLines(s)
             \/ \E p \in Products : CompleteAssess(s, p)
      PROVE  pc[t] = "assess" /\ short'[t] = short[t] /\ job'[t] = job[t]
  <2>1. s # t
    BY <1>3 DEF CompleteLockPO, CompletePost, TypeOK
  <2> QED
    BY <1>3, <2>1 DEF CompleteLockPO, CompletePost, CompleteListLines, CompleteAssess, TypeOK
<1>4. CASE UNCHANGED local
  BY <1>4 DEF local
<1>5. CASE \/ \E po \in POs : MarkShipped(po)
           \/ \E p \in Deletable : DeleteProduct(p)
           \/ \E g \in GRNs, po \in POs : CreateGrn(g, po)
           \/ \E s \in Sessions, p \in Products : CompleteBackorder(s, p)
           \/ UNCHANGED vars
  BY <1>4, <1>5 DEF MarkShipped, DeleteProduct, CreateGrn, CompleteBackorder, vars
<1> QED
  BY <1>1, <1>2, <1>3, <1>5
  DEF Next, Step, AddLineOverReceipt, AddLineInsert, AddLineDuplicate, CompleteEmpty,
      CompleteProductGone, CompleteCommit, DeadlockAbort, Abort

\* The PO lock keeps other completions of the PO out until this one commits.
LEMMA ShortLeastStep ==
  ASSUME IInv, BackorderIInv, [Next]_vars, NEW t \in Sessions
  PROVE  ShortLeast(t)'
<1> SUFFICES ASSUME pc'[t] = "assess", NEW p \in Products
             PROVE  AtLeast(backorders'[JobPO(t)'][p], short'[t][p])
  BY DEF ShortLeast, AtLeast
<1>0. TypeOK
  BY DEF IInv
<1>1. ASSUME NEW r \in Products, CompleteAssess(t, r)
      PROVE  AtLeast(backorders'[JobPO(t)'][p], short'[t][p])
  <2>1. /\ short'[t][p] = IF p = r THEN Outstanding(JobPO(t), p) ELSE short[t][p]
        /\ backorders' = backorders /\ grn' = grn /\ job' = job /\ pc[t] = "assess"
    BY <1>0, <1>1 DEF CompleteAssess, TypeOK, rows
  <2>2. JobPO(t)' = JobPO(t) /\ JobPO(t) \in POs
    BY <2>1 DEF JobPO, IInv, SessionOK, JobNamesRows, GrnsOfShippedPOs
  <2> QED BY <2>1, <2>2 DEF BackorderIInv, ShortLeast
<1>3. CASE CompleteListLines(t)
  <2>1. /\ short'[t][p] = 0 /\ backorders' = backorders /\ grn' = grn /\ job' = job
        /\ pc[t] = "post"
    BY <1>3 DEF CompleteListLines, rows, IInv, SessionOK, LocksOwned, Nothing
  <2>2. JobPO(t)' = JobPO(t) /\ JobPO(t) \in POs
    BY <2>1 DEF JobPO, IInv, SessionOK, JobNamesRows, GrnsOfShippedPOs
  <2> DEFINE b == backorders[JobPO(t)][p]
  <2>3. b \in Seq(Backorder)
    BY <1>0, <2>2 DEF TypeOK
  <2> HIDE DEF b
  <2>4. \A i \in 1 .. Len(b) : b[i] \in Backorder
    BY <2>3
  <2>5. AtLeast(b, 0)
    BY <2>4 DEF AtLeast, Backorder
  <2> QED BY <2>1, <2>2, <2>5 DEF b
<1>2. CASE ~CompleteListLines(t) /\ \A r \in Products : ~CompleteAssess(t, r)
  <2>1. pc[t] = "assess" /\ short'[t] = short[t] /\ job'[t] = job[t]
    BY <1>0, <1>2, KeepsAssessing
  <2>2. /\ job[t].grn \in GRNs /\ grn[job[t].grn].status # "none" /\ JobPO(t) \in POs
        /\ poLock[JobPO(t)] = t
    BY <2>1 DEF IInv, SessionOK, JobNamesRows, GrnsOfShippedPOs, JobPO, CurrentFor
  <2>3. JobPO(t)' = JobPO(t)
    BY <2>1, <2>2, GrnStable DEF JobPO
  <2>4. backorders'[JobPO(t)][p] = backorders[JobPO(t)][p]
    <3>1. ASSUME NEW s \in Sessions, CompleteCommit(s)
          PROVE  backorders'[JobPO(t)][p] = backorders[JobPO(t)][p]
      <4>1. s # t
        BY <1>0, <3>1 DEF CompleteCommit, EndTransaction, TypeOK
      <4>2. poLock[JobPO(s)] = s
        BY <3>1 DEF IInv, SessionOK, CurrentFor, CompleteCommit
      <4>3. JobPO(s) # JobPO(t)
        BY <2>2, <4>1, <4>2
      <4> QED BY <2>2, <3>1, <4>3, CommitBackorders
    <3> QED BY <3>1, EntrySteps
  <2> QED BY <2>1, <2>3, <2>4 DEF BackorderIInv, ShortLeast
<1> QED BY <1>1, <1>2, <1>3

\* No step makes a later backorder ask for more, or for less than is missing.
LEMMA BackorderLineStep ==
  ASSUME IInv, BackorderIInv, [Next]_vars, NEW po \in POs, NEW p \in Products
  PROVE  /\ Shrinking(backorders'[po][p], Ordered[po][p])
         /\ AtLeast(backorders'[po][p], Outstanding(po, p)')
<1> DEFINE b == backorders[po][p]
<1>0. TypeOK /\ TypeOK' /\ Ordered[po][p] \in Nat
  BY StepType, OrderedAssumption DEF IInv
<1>1. Shrinking(b, Ordered[po][p]) /\ AtLeast(b, Outstanding(po, p))
  BY DEF BackorderIInv
<1>2. /\ Outstanding(po, p) \in Nat /\ Outstanding(po, p)' \in Nat
      /\ Outstanding(po, p)' <= Outstanding(po, p)
  <2>1. received[po][p] \in Nat /\ received'[po][p] \in Nat
    BY <1>0 DEF TypeOK
  <2>2. Outstanding(po, p) \in Nat /\ Outstanding(po, p)' \in Nat
    BY <1>0, <2>1 DEF Outstanding
  <2> QED BY <2>2, OutstandingShrinks
<1>3. b \in Seq(Backorder)
  BY <1>0 DEF TypeOK
<1>4. \A i \in 1 .. Len(b) : b[i].outstanding \in Nat
  <2> SUFFICES ASSUME NEW i \in 1 .. Len(b) PROVE b[i].outstanding \in Nat
    OBVIOUS
  <2>1. b[i] \in Backorder
    BY <1>3
  <2> HIDE DEF b
  <2> QED BY <2>1 DEF Backorder
<1>5. AtLeast(b, Outstanding(po, p)')
  <2> HIDE DEF b
  <2> QED BY <1>1, <1>2, <1>4 DEF AtLeast
<1>6. ASSUME NEW s \in Sessions, CompleteCommit(s), po = JobPO(s), short[s][p] > 0
      PROVE  Shrinking(backorders'[po][p], Ordered[po][p])
             /\ AtLeast(backorders'[po][p], Outstanding(po, p)')
  <2> DEFINE e == [received    |-> Ordered[po][p] - short[s][p],
                   outstanding |-> short[s][p],
                   grn         |-> job[s].grn]
  <2>1. e \in Backorder /\ backorders'[po][p] = Append(b, e)
    BY <1>6, CommitBackorders
  <2>2. /\ short[s][p] \in Nat /\ short[s][p] >= Outstanding(po, p)
        /\ AtLeast(b, short[s][p])
    <3>1. pc[s] = "assess" /\ p \notin todo[s]
      BY <1>6 DEF CompleteCommit
    <3>2. CurrentFor(s) /\ ShortLeast(s)
      BY <3>1 DEF IInv, SessionOK, BackorderIInv
    <3> QED BY <1>0, <1>6, <3>1, <3>2 DEF TypeOK, CurrentFor, ShortLeast
  <2>3. /\ e.outstanding = short[s][p] /\ 0 < e.outstanding
        /\ e.outstanding + e.received = Ordered[po][p]
    BY <1>0, <1>6, <2>2
  <2> HIDE DEF b, e
  <2>4. Shrinking(Append(b, e), Ordered[po][p])
    BY <1>0, <1>1, <1>3, <2>1, <2>2, <2>3, AppendShrinks
  <2>5. Outstanding(po, p)' <= e.outstanding
    BY <1>2, <2>2, <2>3
  <2>6. AtLeast(Append(b, e), Outstanding(po, p)')
    BY <1>2, <1>3, <1>5, <2>1, <2>5, AppendAtLeast
  <2> QED BY <2>1, <2>4, <2>6
<1>7. CASE backorders'[po][p] = backorders[po][p]
  BY <1>1, <1>5, <1>7
<1>8. ASSUME NEW s \in Sessions, CompleteCommit(s), ~(po = JobPO(s) /\ short[s][p] > 0)
      PROVE  backorders'[po][p] = backorders[po][p]
  BY <1>8, CommitBackorders
<1> QED BY <1>6, <1>7, <1>8, EntrySteps

\* Completions of one PO, each in a transaction of its own, leave backorders
\* that ask for less and less: the lock on the PO row orders them.
THEOREM LaterBackordersAskLess == Spec => []BackordersShrink
<1>1. Init => BackorderIInv
  <2> SUFFICES ASSUME Init PROVE BackorderIInv
    OBVIOUS
  <2>1. /\ \A po \in POs, p \in Products : backorders[po][p] = <<>>
        /\ \A s \in Sessions : pc[s] = "idle"
    BY DEF Init
  <2> QED BY <2>1 DEF BackorderIInv, Shrinking, AtLeast, ShortLeast
<1>2. IInv /\ BackorderIInv /\ [Next]_vars => BackorderIInv'
  <2> SUFFICES ASSUME IInv, BackorderIInv, [Next]_vars PROVE BackorderIInv'
    OBVIOUS
  <2>1. \A s \in Sessions : ShortLeast(s)'
    BY ShortLeastStep
  <2>2. \A po \in POs, p \in Products :
          /\ Shrinking(backorders'[po][p], Ordered[po][p])
          /\ AtLeast(backorders'[po][p], Outstanding(po, p)')
    BY BackorderLineStep
  <2>3. (\A po \in POs, p \in Products :
          /\ Shrinking(backorders[po][p], Ordered[po][p])
          /\ AtLeast(backorders[po][p], Outstanding(po, p)))'
    BY <2>2 DEF Shrinking, AtLeast
  <2> QED BY <2>1, <2>3 DEF BackorderIInv
<1>3. BackorderIInv => BackordersShrink
  BY DEF BackorderIInv, BackordersShrink, Shrinking
<1> QED BY <1>1, <1>2, <1>3, InductiveInvariant, PTL DEF Spec

-----------------------------------------------------------------------------
(* What the repository's specification promises, proved of every behaviour in  *)
(* which calls do not overlap, however many sessions take turns.               *)

\* No call starts before the one under way has ended.
NoOverlap == \A s, t \in Sessions : pc[s] # "idle" /\ pc[t] # "idle" => s = t

\* A call that runs alone works on an open GRN, and what it read stays true.
AloneOK(s) ==
  pc[s] # "idle" => /\ grn[job[s].grn].status = "open"
                    /\ pc[s] = "add_insert" => Fits(s)
                    /\ pc[s] \in {"post", "assess"} => seen[s] = line[job[s].grn]

\* The product's ledger has one entry of the GRN.
OneEntry(g, p) ==
  \E i \in 1 .. Len(ledger[p]) :
    {j \in 1 .. Len(ledger[p]) : ledger[p][j].reference = g} = {i}

SerialIInv ==
  /\ \A s \in Sessions : AloneOK(s)
  /\ NoOverReceipt
  /\ \A g \in GRNs, p \in Products :
       grn[g].status = "completed" /\ line[g][p] > 0 => OneEntry(g, p)

\* When a call that ran alone ends, no call is under way.
LEMMA AllIdle ==
  ASSUME TypeOK, NoOverlap, NEW t \in Sessions, EndTransaction(t), pc[t] # "idle",
         NEW s \in Sessions
  PROVE  pc'[s] = "idle"
<1>1. pc' = [pc EXCEPT ![t] = "idle"]
  BY DEF EndTransaction
<1>2. s # t => pc[s] = "idle"
  BY DEF NoOverlap
<1> QED BY <1>1, <1>2 DEF TypeOK

\* A call that runs alone keeps what it relies on.
LEMMA AloneStep ==
  ASSUME IInv, SerialIInv, NoOverlap, NoOverlap', [Next]_vars, NEW s \in Sessions
  PROVE  AloneOK(s)'
<1>0. TypeOK /\ AloneOK(s)
  BY DEF IInv, SerialIInv
<1>1. CASE pc'[s] = "idle"
  BY <1>1 DEF AloneOK
<1>2. ASSUME NEW t \in Sessions, EndTransaction(t), pc[t] # "idle"
      PROVE  AloneOK(s)'
  BY <1>0, <1>1, <1>2, AllIdle
<1>3. ASSUME NEW t \in Sessions, DeadlockAbort(t)
      PROVE  AloneOK(s)'
  <2>1. PICK C \in SUBSET Sessions : t \in C /\ Deadlocked(C)
    BY <1>3 DEF DeadlockAbort
  <2>2. pc[t] # "idle" /\ EndTransaction(t)
    BY <1>3, <2>1 DEF Deadlocked, WaitsFor, DeadlockAbort
  <2> QED BY <1>2, <2>2
<1>4. ASSUME pc'[s] = pc[s], job'[s] = job[s], seen'[s] = seen[s],
             line' = line, received' = received,
             \A g \in GRNs : grn[g].status # "none" => grn'[g] = grn[g]
      PROVE  AloneOK(s)'
  <2>1. CASE pc[s] # "idle"
    <3>1. job[s].grn \in GRNs /\ grn[job[s].grn].status # "none"
      BY <2>1 DEF IInv, SessionOK, JobNamesRows
    <3>2. grn'[job'[s].grn] = grn[job[s].grn] /\ JobPO(s)' = JobPO(s)
      BY <1>4, <3>1 DEF JobPO
    <3>3. Fits(s) => Fits(s)'
      BY <1>4, <3>2 DEF Fits
    <3> QED BY <1>0, <1>4, <2>1, <3>2, <3>3 DEF AloneOK
  <2> QED BY <1>1, <1>4, <2>1
<1>5. ASSUME UNCHANGED local, line' = line, received' = received,
             \A g \in GRNs : grn[g].status # "none" => grn'[g] = grn[g]
      PROVE  AloneOK(s)'
  BY <1>4, <1>5 DEF local
<1>6. ASSUME NEW t \in Sessions, pc'[t] # "idle", UNCHANGED rows,
             \A u \in Sessions : u # t => pc'[u] = pc[u],
             pc'[t] \in {"add_check", "lock_po", "add_insert"},
             job'[t].grn \in GRNs /\ grn[job'[t].grn].status = "open",
             pc'[t] = "add_insert" => Fits(t)'
      PROVE  AloneOK(s)'
  <2>1. CASE s = t
    BY <1>6, <2>1 DEF AloneOK, rows
  <2>2. CASE s # t
    BY <1>1, <1>6, <2>2 DEF NoOverlap
  <2> QED BY <2>1, <2>2
<1>7. ASSUME NEW t \in Sessions, NEW g \in GRNs,
             \/ \E p \in Products, q \in Quantities : AddLineRead(t, g, p, q)
             \/ CompleteRead(t, g)
      PROVE  AloneOK(s)'
  <2>1. /\ pc'[t] \in {"add_check", "lock_po"} /\ job'[t].grn = g
        /\ UNCHANGED rows /\ grn[g].status = "open"
    BY <1>0, <1>7 DEF AddLineRead, CompleteRead, TypeOK
  <2>2. \A u \in Sessions : u # t => pc'[u] = pc[u]
    BY <1>0, <1>7 DEF AddLineRead, CompleteRead, TypeOK
  <2> QED BY <1>6, <2>1, <2>2
<1>8. ASSUME NEW t \in Sessions, AddLineCheck(t)
      PROVE  AloneOK(s)'
  <2>1. /\ pc'[t] = "add_insert" /\ UNCHANGED rows /\ job' = job /\ pc[t] = "add_check"
        /\ Fits(t)
        /\ \A u \in Sessions : u # t => pc'[u] = pc[u]
    BY <1>0, <1>8 DEF AddLineCheck, TypeOK
  <2>2. job[t].grn \in GRNs /\ grn[job[t].grn].status = "open"
    BY <2>1 DEF IInv, SessionOK, JobNamesRows, SerialIInv, AloneOK
  <2>3. Fits(t)'
    BY <2>1 DEF Fits, JobPO, rows
  <2> QED BY <1>6, <2>1, <2>2, <2>3
<1>9. ASSUME NEW t \in Sessions, CompleteLockPO(t)
      PROVE  AloneOK(s)'
  <2>1. /\ pc[t] = "lock_po" /\ pc'[t] = "post" /\ UNCHANGED rows /\ job' = job
        /\ seen'[t] = line[job[t].grn]
        /\ \A u \in Sessions : u # t => pc'[u] = pc[u]
    BY <1>0, <1>9 DEF CompleteLockPO, TypeOK
  <2>2. CASE s = t
    BY <1>0, <2>1, <2>2 DEF AloneOK, rows
  <2>3. CASE s # t
    BY <1>1, <2>1, <2>3 DEF NoOverlap
  <2> QED BY <2>2, <2>3
<1>10. ASSUME NEW t \in Sessions,
              \/ \E p \in Products : CompletePost(t, p)
              \/ CompleteListLines(t)
              \/ \E p \in Products : CompleteAssess(t, p) \/ CompleteBackorder(t, p)
       PROVE  AloneOK(s)'
  <2>1. /\ pc[t] \in {"post", "assess"} /\ pc'[t] \in {"post", "assess"} /\ UNCHANGED rows
        /\ job' = job /\ seen' = seen
        /\ \A u \in Sessions : u # t => pc'[u] = pc[u]
    BY <1>0, <1>10
    DEF CompletePost, CompleteListLines, CompleteAssess, CompleteBackorder, TypeOK, local
  <2>2. CASE s = t
    BY <1>0, <2>1, <2>2 DEF AloneOK, rows
  <2>3. CASE s # t
    BY <1>1, <2>1, <2>3 DEF NoOverlap
  <2> QED BY <2>2, <2>3
<1>11. CASE \/ \E po \in POs : MarkShipped(po)
            \/ \E p \in Deletable : DeleteProduct(p)
            \/ UNCHANGED vars
  <2>1. UNCHANGED local /\ line' = line /\ received' = received /\ grn' = grn
    BY <1>11 DEF MarkShipped, DeleteProduct, vars, rows
  <2> QED BY <1>5, <2>1
<1>12. ASSUME NEW h \in GRNs, NEW po \in POs, CreateGrn(h, po)
       PROVE  AloneOK(s)'
  <2>1. /\ UNCHANGED local /\ line' = line /\ received' = received
        /\ \A g \in GRNs : grn[g].status # "none" => grn'[g] = grn[g]
    BY <1>0, <1>12 DEF CreateGrn, TypeOK
  <2> QED BY <1>5, <2>1
<1>13. ASSUME NEW t \in Sessions,
              \/ AddLineOverReceipt(t) \/ AddLineInsert(t) \/ AddLineDuplicate(t)
              \/ CompleteEmpty(t) \/ CompleteCommit(t) \/ Abort(t)
              \/ \E p \in Products : CompleteProductGone(t, p)
       PROVE  AloneOK(s)'
  <2>1. EndTransaction(t) /\ pc[t] # "idle"
    BY <1>13 DEF AddLineOverReceipt, AddLineInsert, AddLineDuplicate, CompleteEmpty,
                 CompleteCommit, Abort, CompleteProductGone
  <2> QED BY <1>2, <2>1
<1> QED
  BY <1>3, <1>7, <1>8, <1>9, <1>10, <1>11, <1>12, <1>13 DEF Next, Step

\* A line is inserted into an open GRN only.
LEMMA FrozenStep ==
  ASSUME IInv, SerialIInv, [Next]_vars, NEW g \in GRNs, grn[g].status = "completed"
  PROVE  line'[g] = line[g]
<1>1. ASSUME NEW s \in Sessions, AddLineInsert(s) PROVE line'[g] = line[g]
  <2>1. job[s].grn # g
    BY <1>1 DEF SerialIInv, AloneOK, AddLineInsert
  <2>2. line' = [line EXCEPT ![job[s].grn] =
                   [line[job[s].grn] EXCEPT ![job[s].product] = job[s].qty]]
    BY <1>1 DEF AddLineInsert
  <2> QED BY <2>1, <2>2 DEF IInv, TypeOK
<1> QED BY <1>1, LineSteps

\* A line is inserted when the quantity still fits the order.
LEMMA ReceiptStep ==
  ASSUME IInv, SerialIInv, [Next]_vars
  PROVE  NoOverReceipt'
<1>0. TypeOK
  BY DEF IInv
<1>1. ASSUME NEW s \in Sessions, AddLineInsert(s) PROVE NoOverReceipt'
  <2> DEFINE r == JobPO(s)
             q == job[s].product
             n == job[s].qty
  <2>1. r \in POs /\ q \in Products /\ n \in Nat
    BY <1>1, QuantitiesAssumption
    DEF IInv, SessionOK, JobNamesRows, GrnsOfShippedPOs, AddLineInsert, JobPO
  <2>2. Fits(s)
    BY <1>1 DEF SerialIInv, AloneOK, AddLineInsert
  <2>3. received' = [received EXCEPT ![r] = [received[r] EXCEPT ![q] = received[r][q] + n]]
    BY <1>1 DEF AddLineInsert, JobPO
  <2>4. received[r][q] \in Nat /\ Ordered[r][q] \in Nat
    BY <1>0, <2>1, OrderedAssumption DEF TypeOK
  <2>5. received[r][q] + n <= Ordered[r][q]
    BY <2>1, <2>2, <2>4 DEF Fits
  <2> HIDE DEF r, q, n
  <2>6. ASSUME NEW po \in POs, NEW p \in Products
        PROVE  received'[po][p] <= Ordered[po][p]
    <3>1. received'[po][p] = IF po = r /\ p = q THEN received[r][q] + n ELSE received[po][p]
      BY <1>0, <2>1, <2>3 DEF TypeOK
    <3> QED BY <2>5, <3>1 DEF SerialIInv, NoOverReceipt
  <2> QED BY <2>6 DEF NoOverReceipt
<1>2. CASE received' = received
  BY <1>2 DEF SerialIInv, NoOverReceipt
<1> QED
  BY <1>1, <1>2, RowSteps DEF rows, MarkShipped, DeleteProduct, CreateGrn, CompleteCommit

\* The commit of a completion gives each line of its GRN its one entry.
LEMMA CommitOneEntry ==
  ASSUME IInv, LedgerIInv, SerialIInv, NEW s \in Sessions, CompleteCommit(s),
         NEW g \in GRNs, NEW p \in Products, grn'[g].status = "completed", line'[g][p] > 0
  PROVE  OneEntry(g, p)'
<1> DEFINE h == job[s].grn
           old == ledger[p]
           e == Posted(s, p)
<1>0. TypeOK
  BY DEF IInv
<1>1. /\ h \in GRNs /\ e \in Entry /\ old \in Seq(Entry) /\ e.reference = h
      /\ ledger'[p] = IF seen[s][p] > 0 THEN Append(old, e) ELSE old
  BY CommitEntries DEF Posted
<1>2. /\ grn[h].status = "open" /\ seen[s] = line[h] /\ line' = line
  BY DEF SerialIInv, AloneOK, CompleteCommit
<1>3. Len(old) \in Nat
  BY <1>1
<1>4. CASE g = h
  <2>1. /\ Len(ledger'[p]) = Len(old) + 1 /\ ledger'[p][Len(old) + 1] = e
        /\ \A j \in 1 .. Len(old) : ledger'[p][j] = old[j]
    BY <1>1, <1>2, <1>4
  <2>2. \A j \in 1 .. Len(old) : old[j].reference # g
    BY <1>2, <1>4 DEF LedgerIInv, LedgerMatchesGrns
  <2> HIDE DEF h, e, old
  <2>3. {j \in 1 .. Len(ledger'[p]) : ledger'[p][j].reference = g} = {Len(old) + 1}
    BY <1>1, <1>3, <1>4, <2>1, <2>2
  <2>4. Len(old) + 1 \in 1 .. Len(ledger'[p])
    BY <1>3, <2>1
  <2> QED BY <2>3, <2>4 DEF OneEntry
<1>5. CASE g # h
  <2>1. grn[g].status = "completed" /\ line[g][p] > 0
    BY <1>0, <1>2, <1>5 DEF CompleteCommit, TypeOK
  <2>2. PICK i \in 1 .. Len(old) : {j \in 1 .. Len(old) : old[j].reference = g} = {i}
    BY <2>1 DEF SerialIInv, OneEntry
  <2>3. CASE ledger'[p] = old
    BY <2>2, <2>3 DEF OneEntry
  <2>4. CASE ledger'[p] = Append(old, e)
    <3>1. /\ Len(ledger'[p]) = Len(old) + 1 /\ ledger'[p][Len(old) + 1] = e
          /\ \A j \in 1 .. Len(old) : ledger'[p][j] = old[j]
      BY <1>1, <2>4
    <3> HIDE DEF h, e, old
    <3>2. i \in 1 .. Len(ledger'[p])
      BY <1>3, <3>1
    <3>3. \A j \in 1 .. Len(old) : ledger'[p][j].reference = g <=> j = i
      BY <2>2, <3>1
    <3>4. ledger'[p][Len(old) + 1].reference # g /\ Len(old) + 1 # i
      BY <1>1, <1>3, <1>5, <3>1
    <3>5. \A j \in 1 .. Len(ledger'[p]) : j \in 1 .. Len(old) \/ j = Len(old) + 1
      BY <1>3, <3>1
    <3>6. {j \in 1 .. Len(ledger'[p]) : ledger'[p][j].reference = g} = {i}
      BY <3>2, <3>3, <3>4, <3>5
    <3> QED BY <3>2, <3>6 DEF OneEntry
  <2> QED BY <1>1, <2>3, <2>4
<1> QED BY <1>4, <1>5

\* The strengthened invariant of calls that take turns.
LEMMA SerialInvariant == Spec /\ []NoOverlap => [](IInv /\ LedgerIInv /\ SerialIInv)
<1>1. Init => LedgerIInv /\ SerialIInv
  <2> SUFFICES ASSUME Init PROVE LedgerIInv /\ SerialIInv
    OBVIOUS
  <2>1. /\ \A p \in Products : Len(ledger[p]) = 0
        /\ \A g \in GRNs : grn[g].status = "none"
        /\ \A s \in Sessions : pc[s] = "idle"
    BY DEF Init, NoGrn
  <2>2. NoOverReceipt
    BY OrderedAssumption DEF Init, Nothing, NoOverReceipt
  <2> QED BY <2>1, <2>2 DEF LedgerIInv, LedgerMatchesGrns, EntriesPositive, SeenIsLine,
                            SerialIInv, AloneOK
<1>2. IInv /\ LedgerIInv /\ SerialIInv /\ NoOverlap /\ NoOverlap' /\ [Next]_vars => SerialIInv'
  <2> SUFFICES ASSUME IInv, LedgerIInv, SerialIInv, NoOverlap, NoOverlap', [Next]_vars
               PROVE  SerialIInv'
    OBVIOUS
  <2>1. \A s \in Sessions : AloneOK(s)'
    BY AloneStep
  <2>2. NoOverReceipt'
    BY ReceiptStep
  <2>3. ASSUME NEW g \in GRNs, NEW p \in Products,
               grn'[g].status = "completed", line'[g][p] > 0
        PROVE  OneEntry(g, p)'
    <3>1. CASE \E s \in Sessions : CompleteCommit(s)
      BY <2>3, <3>1, CommitOneEntry
    <3>2. CASE ledger' = ledger /\ ~ \E s \in Sessions : CompleteCommit(s)
      <4>1. grn[g].status = "completed"
        BY <2>3, <3>2, NotCompletedBefore
      <4>2. line[g][p] > 0
        BY <2>3, <4>1, FrozenStep
      <4> QED BY <3>2, <4>1, <4>2 DEF SerialIInv, OneEntry
    <3> QED BY <3>1, <3>2, EntrySteps
  <2> QED BY <2>1, <2>2, <2>3 DEF SerialIInv
<1>3. IInv /\ LedgerIInv /\ [Next]_vars => LedgerIInv'
  BY MatchesStep, SeenStep DEF LedgerIInv
<1> QED BY <1>1, <1>2, <1>3, InductiveInvariant, PTL DEF Spec

\* Calls that do not overlap never receive more on a PO line than it ordered.
THEOREM SerialNoOverReceipt == Spec /\ []NoOverlap => []NoOverReceipt
<1>1. SerialIInv => NoOverReceipt
  BY DEF SerialIInv
<1> QED BY <1>1, SerialInvariant, PTL

\* Calls that do not overlap give each line of a completed GRN exactly one
\* ledger entry.
THEOREM SerialOneEntry == Spec /\ []NoOverlap => []OneEntryPerLine
<1>1. SerialIInv => OneEntryPerLine
  <2> SUFFICES ASSUME SerialIInv, NEW g \in GRNs, NEW p \in Products,
                      grn[g].status = "completed", line[g][p] > 0
               PROVE  Cardinality({i \in 1 .. Len(ledger[p]) : ledger[p][i].reference = g}) = 1
    BY DEF OneEntryPerLine
  <2>1. PICK i : {j \in 1 .. Len(ledger[p]) : ledger[p][j].reference = g} = {i}
    BY DEF SerialIInv, OneEntry
  <2> QED BY <2>1, FS_Singleton
<1> QED BY <1>1, SerialInvariant, PTL

\* Calls that do not overlap never add a line to a completed GRN.
THEOREM SerialGrnFrozen == Spec /\ []NoOverlap => CompletedGrnFrozen
<1>1. IInv /\ SerialIInv /\ [Next]_vars =>
        \A g \in GRNs : grn[g].status = "completed" => line'[g] = line[g]
  BY FrozenStep
<1> QED BY <1>1, SerialInvariant, PTL DEF Spec, CompletedGrnFrozen

-----------------------------------------------------------------------------
(* What was received of a PO line is in the ledger, or on a GRN still open.    *)

\* The open GRNs of a PO, and what they say was received of one of its lines.
Open(po)       == {g \in GRNs : grn[g].status = "open" /\ grn[g].po = po}
OnLine(p)      == [g \in GRNs |-> line[g][p]]
Pending(po, p) == SumFunctionOnSet(OnLine(p), Open(po))

BooksIInv ==
  /\ IsFiniteSet({g \in GRNs : grn[g].status # "none"})
  /\ \A g \in GRNs, p \in Products : grn[g].status = "none" => line[g][p] = 0
  /\ \A po \in POs, p \in Products : received[po][p] = InStock(po, p) + Pending(po, p)

\* Sums over the ledger and over open GRNs are sums of finitely many naturals.
LEMMA BooksTyped ==
  ASSUME TypeOK, LedgerIInv, IsFiniteSet({g \in GRNs : grn[g].status # "none"}),
         NEW po \in POs, NEW p \in Products
  PROVE  /\ IsFiniteSet(Open(po)) /\ Pending(po, p) \in Nat
         /\ InStock(po, p) \in Nat
         /\ \A g \in GRNs : OnLine(p)[g] \in Nat
         /\ \A i \in 1 .. Len(ledger[p]) :
              /\ ledger[p][i] \in Entry
              /\ [j \in 1 .. Len(ledger[p]) |-> ledger[p][j].change][i] \in Nat
<1>1. \A g \in GRNs : OnLine(p)[g] \in Nat
  BY DEF OnLine, TypeOK
<1>2. IsFiniteSet(Open(po)) /\ Open(po) \subseteq GRNs
  <2>1. Open(po) \subseteq {g \in GRNs : grn[g].status # "none"}
    BY DEF Open
  <2> QED BY <2>1, FS_Subset
<1>3. Pending(po, p) \in Nat
  BY <1>1, <1>2, SumNat DEF Pending
<1> DEFINE c == [i \in 1 .. Len(ledger[p]) |-> ledger[p][i].change]
           E == {i \in 1 .. Len(ledger[p]) : grn[ledger[p][i].reference].po = po}
<1>4. Len(ledger[p]) \in Nat /\ \A i \in 1 .. Len(ledger[p]) : ledger[p][i] \in Entry
  BY DEF TypeOK
<1>5. \A i \in 1 .. Len(ledger[p]) : c[i] \in Nat
  <2>1. \A i \in 1 .. Len(ledger[p]) : ledger[p][i].change \in Int /\ ledger[p][i].change > 0
    BY <1>4 DEF Entry, LedgerIInv, EntriesPositive
  <2> QED BY <2>1
<1>6. IsFiniteSet(E) /\ E \subseteq 1 .. Len(ledger[p])
  <2>1. IsFiniteSet(1 .. Len(ledger[p]))
    BY <1>4, FS_Interval
  <2> QED BY <2>1, FS_Subset
<1>7. InStock(po, p) \in Nat
  <2>1. InStock(po, p) = SumFunctionOnSet(c, E)
    BY DEF InStock
  <2> HIDE DEF c, E
  <2> QED BY <1>5, <1>6, <2>1, SumNat
<1> QED BY <1>1, <1>2, <1>3, <1>4, <1>5, <1>7

\* The entries a product has keep their PO.
LEMMA EntriesKeepPO ==
  ASSUME IInv, LedgerIInv, [Next]_vars, NEW p \in Products, NEW i \in 1 .. Len(ledger[p])
  PROVE  grn'[ledger[p][i].reference].po = grn[ledger[p][i].reference].po
<1>1. ledger[p][i] \in Entry
  BY DEF IInv, TypeOK
<1>2. ledger[p][i].reference \in GRNs
  BY <1>1 DEF Entry
<1>3. grn[ledger[p][i].reference].status # "none"
  BY DEF LedgerIInv, LedgerMatchesGrns
<1> QED BY <1>2, <1>3, GrnStable

\* A step that posts nothing for a product leaves what was received of it.
LEMMA InStockKept ==
  ASSUME IInv, LedgerIInv, [Next]_vars, NEW po \in POs, NEW p \in Products,
         ledger'[p] = ledger[p]
  PROVE  InStock(po, p)' = InStock(po, p)
<1>1. {i \in 1 .. Len(ledger[p]) : grn'[ledger[p][i].reference].po = po}
      = {i \in 1 .. Len(ledger[p]) : grn[ledger[p][i].reference].po = po}
  BY EntriesKeepPO
<1> QED BY <1>1 DEF InStock

\* A commit adds the quantity of its line to what its PO received.
LEMMA InStockAdds ==
  ASSUME IInv, LedgerIInv, BooksIInv, NEW s \in Sessions, CompleteCommit(s),
         NEW po \in POs, NEW p \in Products, seen[s][p] > 0
  PROVE  InStock(po, p)' = InStock(po, p) + (IF po = JobPO(s) THEN seen[s][p] ELSE 0)
<1> DEFINE l == ledger[p]
           m == ledger'[p]
           n == Len(l) + 1
           c == [i \in 1 .. Len(l) |-> l[i].change]
           d == [i \in 1 .. Len(m) |-> m[i].change]
           E == {i \in 1 .. Len(l) : grn[l[i].reference].po = po}
           F == {i \in 1 .. Len(m) : grn'[m[i].reference].po = po}
<1>0. TypeOK /\ TypeOK' /\ Next /\ LedgerIInv'
  <2>1. TypeOK /\ Next
    BY DEF IInv, CompleteCommit, Next, Step
  <2> QED BY <2>1, StepType, MatchesStep, SeenStep DEF LedgerIInv
<1>1. InStock(po, p) = SumFunctionOnSet(c, E) /\ InStock(po, p)' = SumFunctionOnSet(d, F)
  BY DEF InStock
<1>2. /\ l \in Seq(Entry) /\ Posted(s, p) \in Entry /\ m = Append(l, Posted(s, p))
      /\ job[s].grn \in GRNs /\ seen[s][p] \in Nat
  BY <1>0, CommitEntries DEF TypeOK
<1>3. /\ Len(l) \in Nat /\ Len(m) = n /\ m[n] = Posted(s, p)
      /\ \A i \in 1 .. Len(l) : m[i] = l[i]
  BY <1>2
<1>4. grn'[job[s].grn].po = JobPO(s)
  BY <1>0, <1>2 DEF CompleteCommit, TypeOK
<1>5. \A i \in 1 .. Len(l) : i \in F <=> i \in E
  <2> SUFFICES ASSUME NEW i \in 1 .. Len(l) PROVE i \in F <=> i \in E
    OBVIOUS
  <2>1. m[i] = l[i] /\ i \in 1 .. Len(m)
    BY <1>3
  <2>2. grn'[l[i].reference].po = grn[l[i].reference].po
    BY <1>0, EntriesKeepPO
  <2> QED BY <2>1, <2>2
<1>6. n \in F <=> po = JobPO(s)
  <2>1. n \in 1 .. Len(m) /\ m[n].reference = job[s].grn
    BY <1>3 DEF Posted
  <2> QED BY <1>4, <2>1
<1>7. F = IF po = JobPO(s) THEN E \cup {n} ELSE E
  <2>1. \A i \in F : i \in 1 .. Len(l) \/ i = n
    BY <1>3
  <2>2. E \subseteq 1 .. Len(l)
    OBVIOUS
  <2> HIDE DEF E, F, l, m, n
  <2>3. CASE po = JobPO(s)
    BY <1>5, <1>6, <2>1, <2>2, <2>3
  <2>4. CASE po # JobPO(s)
    <3>1. F \subseteq 1 .. Len(l)
      BY <1>6, <2>1, <2>4
    <3>2. F = E
      BY <1>5, <2>2, <3>1
    <3> QED BY <2>4, <3>2
  <2> QED BY <2>3, <2>4
<1>8. n \notin E /\ IsFiniteSet(E) /\ IsFiniteSet(F)
  <2>1. IsFiniteSet(1 .. Len(l)) /\ IsFiniteSet(1 .. Len(m))
    <3>1. Len(l) \in Int /\ Len(m) \in Int
      BY <1>3
    <3> QED BY <3>1, FS_Interval
  <2>2. n \notin 1 .. Len(l)
    BY <1>3
  <2> QED BY <2>1, <2>2, FS_Subset
<1>9. \A i \in E : d[i] = c[i]
  BY <1>3
<1>10. d[n] = seen[s][p] /\ \A i \in F : d[i] \in Nat
  <2>1. d[n] = seen[s][p]
    BY <1>3 DEF Posted
  <2>2. \A i \in E : d[i] \in Nat
    <3> SUFFICES ASSUME NEW i \in E PROVE d[i] \in Nat
      OBVIOUS
    <3>1. i \in 1 .. Len(l) /\ c[i] \in Nat
      BY <1>0, BooksTyped DEF BooksIInv
    <3> QED BY <1>9, <3>1
  <2> HIDE DEF E, F, c, d, n
  <2> QED BY <1>2, <1>7, <2>1, <2>2
<1>11. SumFunctionOnSet(d, E) = SumFunctionOnSet(c, E)
  <2> HIDE DEF E, c, d
  <2> QED BY <1>8, <1>9, SumSame
<1> HIDE DEF l, m, n, c, d, E, F
<1>12. SumFunctionOnSet(c, E) \in Nat
  BY <1>0, <1>1, BooksTyped DEF BooksIInv
<1>13. CASE po = JobPO(s)
  <2>1. n \in F /\ F \ {n} = E
    BY <1>7, <1>8, <1>13
  <2>2. SumFunctionOnSet(d, F) = d[n] + SumFunctionOnSet(d, F \ {n})
    BY <1>8, <1>10, <2>1, SumRemove
  <2>3. SumFunctionOnSet(d, F) = seen[s][p] + SumFunctionOnSet(c, E)
    BY <1>10, <1>11, <2>1, <2>2
  <2>4. InStock(po, p)' = seen[s][p] + InStock(po, p) /\ InStock(po, p) \in Nat
    BY <1>1, <1>12, <2>3
  <2> QED BY <1>2, <1>13, <2>4
<1>14. CASE po # JobPO(s)
  BY <1>1, <1>7, <1>11, <1>12, <1>14
<1> QED BY <1>13, <1>14

\* A line inserted into an open GRN is pending.
LEMMA InsertBooks ==
  ASSUME IInv, LedgerIInv, SerialIInv, BooksIInv, NEW s \in Sessions, AddLineInsert(s),
         NEW po \in POs, NEW p \in Products
  PROVE  received'[po][p] = InStock(po, p)' + Pending(po, p)'
<1> DEFINE g == job[s].grn
           r == JobPO(s)
           q == job[s].product
           n == job[s].qty
<1>0. TypeOK /\ Next /\ TypeOK' /\ ledger' = ledger /\ grn' = grn
  <2>1. TypeOK /\ Next /\ ledger' = ledger /\ grn' = grn
    BY DEF IInv, AddLineInsert, Next, Step
  <2> QED BY <2>1, StepType
<1>1. /\ g \in GRNs /\ r \in POs /\ q \in Products /\ n \in Nat
      /\ grn[g].status = "open" /\ grn[g].po = r /\ line[g][q] = 0
  BY QuantitiesAssumption
  DEF IInv, SessionOK, JobNamesRows, GrnsOfShippedPOs, AddLineInsert, JobPO, SerialIInv, AloneOK
<1>2. /\ line' = [line EXCEPT ![g] = [line[g] EXCEPT ![q] = n]]
      /\ received' = [received EXCEPT ![r] = [received[r] EXCEPT ![q] = received[r][q] + n]]
  BY DEF AddLineInsert, JobPO
<1>3. InStock(po, p)' = InStock(po, p) /\ InStock(po, p) \in Nat
  BY <1>0, InStockKept, BooksTyped DEF BooksIInv
<1>4. /\ IsFiniteSet(Open(po)) /\ Pending(po, p) \in Nat
      /\ \A h \in GRNs : OnLine(p)[h] \in Nat
      /\ Open(po)' = Open(po) /\ Open(po) \subseteq GRNs
  BY <1>0, BooksTyped DEF BooksIInv, Open
<1>5. received[po][p] = InStock(po, p) + Pending(po, p)
  BY DEF BooksIInv
<1>6. \A h \in GRNs : /\ OnLine(p)[h] = line[h][p]
                      /\ OnLine(p)'[h] = IF h = g /\ p = q THEN n ELSE line[h][p]
  BY <1>0, <1>1, <1>2 DEF OnLine, TypeOK
<1>7. received'[po][p] = IF po = r /\ p = q THEN received[po][p] + n ELSE received[po][p]
  BY <1>0, <1>1, <1>2 DEF TypeOK
<1> HIDE DEF g, r, q, n
<1>8. CASE po = r /\ p = q
  <2>1. g \in Open(po)
    BY <1>1, <1>8 DEF Open
  <2>2. SumFunctionOnSet(OnLine(p), Open(po))
          = OnLine(p)[g] + SumFunctionOnSet(OnLine(p), Open(po) \ {g})
    BY <1>4, <2>1, SumRemove
  <2>3. \A h \in Open(po) : OnLine(p)'[h] \in Nat
    BY <1>1, <1>4, <1>6
  <2>4. SumFunctionOnSet(OnLine(p)', Open(po))
          = OnLine(p)'[g] + SumFunctionOnSet(OnLine(p)', Open(po) \ {g})
    BY <1>4, <2>1, <2>3, SumRemove
  <2>5. IsFiniteSet(Open(po) \ {g}) /\ \A h \in Open(po) \ {g} : OnLine(p)[h] = OnLine(p)'[h]
    BY <1>4, <1>6, FS_RemoveElement
  <2>6. SumFunctionOnSet(OnLine(p), Open(po) \ {g}) = SumFunctionOnSet(OnLine(p)', Open(po) \ {g})
    BY <2>5, SumSame
  <2>7. OnLine(p)[g] = 0 /\ OnLine(p)'[g] = n
    BY <1>1, <1>6, <1>8
  <2>8. Pending(po, p)' = SumFunctionOnSet(OnLine(p)', Open(po))
    BY <1>4 DEF Pending
  <2>9. SumFunctionOnSet(OnLine(p), Open(po) \ {g}) \in Nat
    BY <1>4, <2>5, SumNat
  <2>10. Pending(po, p)' = Pending(po, p) + n
    BY <1>1, <2>2, <2>4, <2>6, <2>7, <2>8, <2>9 DEF Pending
  <2> QED BY <1>1, <1>3, <1>4, <1>5, <1>7, <1>8, <2>10
<1>9. CASE ~(po = r /\ p = q)
  <2>1. \A h \in Open(po) : OnLine(p)'[h] = OnLine(p)[h]
    BY <1>1, <1>4, <1>6, <1>9 DEF Open
  <2>2. SumFunctionOnSet(OnLine(p)', Open(po)) = SumFunctionOnSet(OnLine(p), Open(po))
    BY <1>4, <2>1, SumSame
  <2>3. Pending(po, p)' = Pending(po, p)
    BY <1>4, <2>2 DEF Pending
  <2> QED BY <1>3, <1>5, <1>7, <1>9, <2>3
<1> QED BY <1>8, <1>9

\* A completed GRN moves from the pending lines to the ledger.
LEMMA CommitBooks ==
  ASSUME IInv, LedgerIInv, SerialIInv, BooksIInv, NEW s \in Sessions, CompleteCommit(s),
         NEW po \in POs, NEW p \in Products
  PROVE  received'[po][p] = InStock(po, p)' + Pending(po, p)'
<1> DEFINE g == job[s].grn
<1>0. TypeOK /\ Next /\ TypeOK' /\ line' = line /\ received' = received
  <2>1. TypeOK /\ Next /\ line' = line /\ received' = received
    BY DEF IInv, CompleteCommit, Next, Step
  <2> QED BY <2>1, StepType
<1>1. /\ g \in GRNs /\ grn[g].status = "open" /\ grn[g].po = JobPO(s)
      /\ seen[s] = line[g] /\ seen[s][p] \in Nat
  <2>1. g \in GRNs /\ grn[g].po = JobPO(s)
    BY DEF IInv, SessionOK, JobNamesRows, CompleteCommit, JobPO
  <2>2. grn[g].status = "open" /\ seen[s] = line[g]
    BY DEF CompleteCommit, SerialIInv, AloneOK
  <2>3. seen[s][p] \in Nat
    BY <1>0 DEF TypeOK
  <2> QED BY <2>1, <2>2, <2>3
<1>2. /\ grn'[g].status = "completed"
      /\ \A h \in GRNs : h # g => grn'[h] = grn[h]
  BY <1>0, <1>1 DEF CompleteCommit, TypeOK
<1>3. /\ IsFiniteSet(Open(po)) /\ Pending(po, p) \in Nat /\ InStock(po, p) \in Nat
      /\ \A h \in Open(po) : OnLine(p)[h] \in Nat
  BY <1>0, BooksTyped DEF BooksIInv, Open
<1>4. Open(po)' = Open(po) \ {g}
  BY <1>1, <1>2 DEF Open
<1>5. received[po][p] = InStock(po, p) + Pending(po, p)
  BY DEF BooksIInv
<1>6. OnLine(p)' = OnLine(p) /\ OnLine(p)[g] = seen[s][p]
  BY <1>0, <1>1 DEF OnLine
<1>7. Pending(po, p)' = SumFunctionOnSet(OnLine(p), Open(po) \ {g})
  BY <1>4, <1>6 DEF Pending
<1>8. InStock(po, p)' = InStock(po, p) + (IF po = JobPO(s) THEN seen[s][p] ELSE 0)
  <2>1. CASE seen[s][p] > 0
    BY <2>1, InStockAdds
  <2>2. CASE seen[s][p] = 0
    <3>1. ledger'[p] = ledger[p]
      BY <2>2, CommitEntries
    <3> QED BY <1>0, <1>3, <2>2, <3>1, InStockKept
  <2> QED BY <1>1, <2>1, <2>2
<1> HIDE DEF g
<1>9. CASE po = JobPO(s)
  <2>1. g \in Open(po)
    BY <1>1, <1>9 DEF Open
  <2>2. Pending(po, p) = OnLine(p)[g] + SumFunctionOnSet(OnLine(p), Open(po) \ {g})
    BY <1>3, <2>1, SumRemove DEF Pending
  <2>3. SumFunctionOnSet(OnLine(p), Open(po) \ {g}) \in Nat
    <3>1. IsFiniteSet(Open(po) \ {g})
      BY <1>3, FS_Subset
    <3> QED BY <1>3, <3>1, SumNat
  <2> QED BY <1>0, <1>1, <1>3, <1>5, <1>6, <1>7, <1>8, <1>9, <2>2, <2>3
<1>10. CASE po # JobPO(s)
  <2>1. Open(po) \ {g} = Open(po)
    BY <1>1, <1>10 DEF Open
  <2>2. Pending(po, p)' = Pending(po, p)
    BY <1>7, <2>1 DEF Pending
  <2>3. InStock(po, p)' = InStock(po, p)
    BY <1>3, <1>8, <1>10
  <2> QED BY <1>0, <1>5, <2>2, <2>3
<1> QED BY <1>9, <1>10

\* A new GRN has no lines.
LEMMA CreateBooks ==
  ASSUME IInv, LedgerIInv, BooksIInv, NEW h \in GRNs, NEW o \in POs, CreateGrn(h, o),
         NEW po \in POs, NEW p \in Products
  PROVE  received'[po][p] = InStock(po, p)' + Pending(po, p)'
<1>0. /\ TypeOK /\ Next /\ line' = line /\ received' = received /\ ledger' = ledger
      /\ grn[h].status = "none"
      /\ grn' = [grn EXCEPT ![h] = [status |-> "open", po |-> o, reorder |-> FALSE]]
  BY DEF IInv, CreateGrn, Next
<1>1. InStock(po, p)' = InStock(po, p)
  BY <1>0, InStockKept
<1>2. received[po][p] = InStock(po, p) + Pending(po, p)
  BY DEF BooksIInv
<1>3. OnLine(p)' = OnLine(p) /\ OnLine(p)[h] = 0
  BY <1>0 DEF OnLine, BooksIInv
<1>4. h \notin Open(po) /\ Open(po)' = IF po = o THEN Open(po) \cup {h} ELSE Open(po)
  BY <1>0 DEF Open, TypeOK
<1>5. /\ IsFiniteSet(Open(po)) /\ Pending(po, p) \in Nat
      /\ \A g \in Open(po) \cup {h} : OnLine(p)[g] \in Nat
  BY <1>0, BooksTyped DEF BooksIInv, Open
<1>6. Pending(po, p)' = SumFunctionOnSet(OnLine(p), Open(po)')
  BY <1>3 DEF Pending
<1>7. Pending(po, p)' = Pending(po, p)
  <2>1. CASE po = o
    <3>1. IsFiniteSet(Open(po) \cup {h}) /\ (Open(po) \cup {h}) \ {h} = Open(po)
      BY <1>4, <1>5, FS_AddElement
    <3>2. SumFunctionOnSet(OnLine(p), Open(po) \cup {h})
            = OnLine(p)[h] + SumFunctionOnSet(OnLine(p), (Open(po) \cup {h}) \ {h})
      BY <1>5, <3>1, SumRemove
    <3> QED BY <1>3, <1>4, <1>5, <1>6, <2>1, <3>1, <3>2 DEF Pending
  <2>2. CASE po # o
    BY <1>4, <1>6, <2>2 DEF Pending
  <2> QED BY <2>1, <2>2
<1> QED BY <1>0, <1>1, <1>2, <1>7

\* Other steps touch neither lines nor entries nor GRNs.
LEMMA OtherSteps ==
  ASSUME [Next]_vars,
         ~ \E s \in Sessions : AddLineInsert(s) \/ CompleteCommit(s),
         ~ \E g \in GRNs, po \in POs : CreateGrn(g, po)
  PROVE  line' = line /\ received' = received /\ ledger' = ledger /\ grn' = grn
<1>1. line' = line
  BY LineSteps
<1>2. ledger' = ledger
  BY EntrySteps
<1>3. grn' = grn
  BY GrnSteps
<1>4. received' = received
  BY RowSteps DEF rows, MarkShipped, DeleteProduct
<1> QED BY <1>1, <1>2, <1>3, <1>4

\* The GRNs there are stay finitely many, and those to come have no lines.
LEMMA GrnsFinite ==
  ASSUME IInv, BooksIInv, [Next]_vars
  PROVE  /\ IsFiniteSet({g \in GRNs : grn'[g].status # "none"})
         /\ \A g \in GRNs, p \in Products : grn'[g].status = "none" => line'[g][p] = 0
<1> DEFINE R == {g \in GRNs : grn[g].status # "none"}
           Q == {g \in GRNs : grn'[g].status # "none"}
<1>0. TypeOK /\ IsFiniteSet(R)
  BY DEF IInv, BooksIInv
<1>1. IsFiniteSet(Q)
  <2>1. ASSUME NEW h \in GRNs, NEW po \in POs, CreateGrn(h, po) PROVE IsFiniteSet(Q)
    <3>1. grn' = [grn EXCEPT ![h] = [status |-> "open", po |-> po, reorder |-> FALSE]]
      BY <2>1 DEF CreateGrn
    <3>2. Q \subseteq R \cup {h}
      BY <1>0, <3>1 DEF TypeOK
    <3>3. IsFiniteSet(R \cup {h})
      BY <1>0, FS_AddElement
    <3> QED BY <3>2, <3>3, FS_Subset
  <2>2. ASSUME NEW s \in Sessions, CompleteCommit(s) PROVE IsFiniteSet(Q)
    <3>1. /\ job[s].grn \in GRNs /\ grn[job[s].grn].status # "none"
          /\ grn' = [grn EXCEPT ![job[s].grn] = grn'[job[s].grn]]
      BY <1>0, <2>2 DEF IInv, SessionOK, JobNamesRows, CompleteCommit, TypeOK
    <3>2. Q \subseteq R
      BY <1>0, <3>1 DEF TypeOK
    <3> QED BY <1>0, <3>2, FS_Subset
  <2>3. CASE grn' = grn
    BY <1>0, <2>3
  <2> QED BY <2>1, <2>2, <2>3, GrnSteps
<1>2. ASSUME NEW g \in GRNs, NEW p \in Products, grn'[g].status = "none"
      PROVE  line'[g][p] = 0
  <2>1. grn[g].status = "none"
    BY <1>2, GrnStable
  <2>2. ASSUME NEW s \in Sessions, AddLineInsert(s) PROVE line'[g][p] = line[g][p]
    <3>1. job[s].grn # g
      BY <2>1, <2>2 DEF IInv, SessionOK, JobNamesRows, AddLineInsert
    <3>2. line' = [line EXCEPT ![job[s].grn] =
                     [line[job[s].grn] EXCEPT ![job[s].product] = job[s].qty]]
      BY <2>2 DEF AddLineInsert
    <3> QED BY <1>0, <3>1, <3>2 DEF TypeOK
  <2>3. line'[g][p] = line[g][p]
    BY <2>2, LineSteps
  <2> QED BY <2>1, <2>3 DEF BooksIInv
<1> QED BY <1>1, <1>2

\* Calls that do not overlap leave a received PO, once it has no open GRN, with
\* all it ordered in stock.
THEOREM SerialSettled == Spec /\ []NoOverlap => []SettledMeansInStock
<1>1. Init => BooksIInv
  <2> SUFFICES ASSUME Init PROVE BooksIInv
    OBVIOUS
  <2>1. /\ \A g \in GRNs : grn[g].status = "none"
        /\ \A g \in GRNs, p \in Products : line[g][p] = 0
        /\ \A po \in POs, p \in Products : received[po][p] = 0
        /\ \A p \in Products : ledger[p] = <<>>
    BY DEF Init, NoGrn, Nothing
  <2>2. IsFiniteSet({g \in GRNs : grn[g].status # "none"})
    <3>1. {g \in GRNs : grn[g].status # "none"} = {}
      BY <2>1
    <3> QED BY <3>1, FS_EmptySet
  <2>3. ASSUME NEW po \in POs, NEW p \in Products
        PROVE  InStock(po, p) = 0 /\ Pending(po, p) = 0
    <3>1. Open(po) = {}
      BY <2>1 DEF Open
    <3>2. {i \in 1 .. Len(ledger[p]) : grn[ledger[p][i].reference].po = po} = {}
      BY <2>1
    <3> QED BY <3>1, <3>2, SumEmpty DEF Pending, InStock
  <2> QED BY <2>1, <2>2, <2>3 DEF BooksIInv
<1>2. IInv /\ LedgerIInv /\ SerialIInv /\ BooksIInv /\ [Next]_vars => BooksIInv'
  <2> SUFFICES ASSUME IInv, LedgerIInv, SerialIInv, BooksIInv, [Next]_vars
               PROVE  BooksIInv'
    OBVIOUS
  <2>1. ASSUME NEW po \in POs, NEW p \in Products
        PROVE  received'[po][p] = InStock(po, p)' + Pending(po, p)'
    <3>1. ASSUME line' = line, received' = received, ledger' = ledger, grn' = grn
          PROVE  received'[po][p] = InStock(po, p)' + Pending(po, p)'
      <4>1. Pending(po, p)' = Pending(po, p) /\ InStock(po, p)' = InStock(po, p)
        BY <3>1 DEF Pending, OnLine, Open, InStock
      <4> QED BY <3>1, <4>1 DEF BooksIInv
    <3> QED BY <3>1, OtherSteps, InsertBooks, CommitBooks, CreateBooks
  <2> QED BY <2>1, GrnsFinite DEF BooksIInv
<1>3. IInv /\ LedgerIInv /\ BooksIInv => SettledMeansInStock
  <2> SUFFICES ASSUME IInv, LedgerIInv, BooksIInv, NEW po \in POs, NEW p \in Products,
                      poStatus[po] = "received",
                      \A g \in GRNs : grn[g].po = po => grn[g].status = "completed"
               PROVE  Ordered[po][p] <= InStock(po, p)
    BY DEF SettledMeansInStock
  <2>1. Open(po) = {}
    BY DEF Open
  <2>2. Pending(po, p) = 0
    BY <2>1, SumEmpty DEF Pending
  <2>3. received[po][p] >= Ordered[po][p]
    BY DEF IInv, ReceivedMeansCovered
  <2>4. InStock(po, p) \in Nat /\ received[po][p] = InStock(po, p) + Pending(po, p)
    BY BooksTyped DEF BooksIInv, IInv
  <2> QED BY <2>2, <2>3, <2>4
<1> QED BY <1>1, <1>2, <1>3, SerialInvariant, PTL DEF Spec

=============================================================================
