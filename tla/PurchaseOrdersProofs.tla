----------------------- MODULE PurchaseOrdersProofs -----------------------
(***************************************************************************)
(* Proofs about PurchaseOrders, for every number of sessions, orders,      *)
(* suppliers and products, whatever calls overlap and wherever they fail:  *)
(* the inductive invariant, and that the service keeps the promise of an   *)
(* order book.                                                             *)
(***************************************************************************)
EXTENDS PurchaseOrders, SumTheorems, TLAPS

USE NoneAssumption, AmountsAssumption DEF PC, POStatus

\* Rounding to cents moves a total by no more than half a cent.
LEMMA CentsNear ==
  ASSUME NEW x \in Nat
  PROVE  Cents(x) \in Nat /\ 100 * Cents(x) - x \in -49 .. 50
BY DEF Cents

\* The lines of an order add up to a natural number.
LEMMA LinesTotal ==
  ASSUME NEW ls \in Lines \cup {NoLines}
  PROVE  Cents(LineSum(ls)) \in Nat /\ 100 * Cents(LineSum(ls)) - LineSum(ls) \in -49 .. 50
<1>1. \A p \in Products : ls[p] \in Nat
  <2>1. ls \in [Products -> LineTotals \cup {0}]
    BY DEF Lines, NoLines
  <2>2. ASSUME NEW p \in Products PROVE ls[p] \in Nat
    <3>1. ls[p] \in LineTotals \cup {0}
      BY <2>1
    <3>2. LineTotals \cup {0} \subseteq Nat
      BY AmountsAssumption
    <3> QED BY <3>1, <3>2
  <2> QED BY <2>2
<1>2. LineSum(ls) \in Nat
  BY <1>1, ProductsAssumption, SumNat DEF LineSum
<1> QED BY <1>2, CentsNear

\* A session that ends its transaction is idle and holds nothing; the others
\* keep their place, their job and their locks.
LEMMA EndReleases ==
  ASSUME TypeOK, NEW s \in Sessions, EndTransaction(s)
  PROVE  /\ poLock' \in [POs -> Sessions \cup {None}]
         /\ pc' \in [Sessions -> PC]
         /\ job' \in [Sessions -> [po : POs \cup {None}, supplier : Suppliers \cup {None},
                                   lines : Lines \cup {NoLines}, limit : Nat]]
         /\ pc'[s] = "idle"
         /\ \A t \in Sessions \ {s} : pc'[t] = pc[t] /\ job'[t] = job[t]
         /\ \A po \in POs : poLock'[po] = IF poLock[po] = s THEN None ELSE poLock[po]
BY DEF TypeOK, EndTransaction, NoJob

-----------------------------------------------------------------------------
\* Totals follow lines, timestamps tell the path, and a submission under way
\* holds its draft: the inductive invariant of PurchaseOrderService.
THEOREM InductiveInvariant == Spec => []IInv
<1>1. Init => IInv
  <2> SUFFICES ASSUME Init PROVE IInv
    OBVIOUS
  <2>1. TypeOK
    BY LinesTotal DEF Init, TypeOK, NoJob, Paths
  <2>2. RowsOK
    BY LinesTotal DEF Init, RowsOK, NoJob, Paths
  <2>3. SubmissionsHoldDrafts
    BY LinesTotal DEF Init, SubmissionsHoldDrafts, NoJob, Paths
  <2>4. TotalIsLines
    BY LinesTotal DEF Init, TotalIsLines, NoJob, Paths
  <2>5. StampsTellPath
    BY LinesTotal DEF Init, StampsTellPath, NoJob, Paths
  <2> QED
    BY <2>1, <2>2, <2>3, <2>4, <2>5 DEF IInv
<1>2. IInv /\ [Next]_vars => IInv'
  <2> SUFFICES ASSUME IInv, [Next]_vars PROVE IInv'
    OBVIOUS
  <2>i. TypeOK /\ RowsOK /\ SubmissionsHoldDrafts /\ TotalIsLines /\ StampsTellPath
    BY DEF IInv
  <2>1. CASE UNCHANGED vars
    BY <2>1, <2>i DEF IInv, TypeOK, RowsOK, SubmissionsHoldDrafts, TotalIsLines, StampsTellPath, vars, rows
  <2>2. ASSUME NEW s \in Sessions, NEW sup \in Suppliers, NEW ls \in Lines,
               CreateRead(s, sup, ls)
        PROVE  IInv'
    <3>1. TypeOK'
      BY <2>2, <2>i DEF CreateRead, TypeOK, NoJob, rows
    <3>2. RowsOK'
      BY <2>2, <2>i DEF CreateRead, RowsOK, TypeOK, NoJob, rows
    <3>3. SubmissionsHoldDrafts'
      BY <2>2, <2>i DEF CreateRead, SubmissionsHoldDrafts, TypeOK, NoJob, rows
    <3>4. TotalIsLines'
      BY <2>2, <2>i DEF CreateRead, TotalIsLines, TypeOK, NoJob, rows
    <3>5. StampsTellPath'
      BY <2>2, <2>i DEF CreateRead, StampsTellPath, TypeOK, Paths, NoJob, rows
    <3> QED
      BY <3>1, <3>2, <3>3, <3>4, <3>5 DEF IInv
  <2>3. ASSUME NEW s \in Sessions, NEW po \in POs,
               CreateInsert(s, po)
        PROVE  IInv'
    <3>1. TypeOK'
      BY <2>3, <2>i, EndReleases, LinesTotal DEF CreateInsert, TypeOK, RowsOK
    <3>2. RowsOK'
      BY <2>3, <2>i, EndReleases DEF CreateInsert, RowsOK, TypeOK
    <3>a. /\ \A t \in Sessions : pc'[t] \in {"submit_sum", "submit_commit"} =>
               t # s /\ pc'[t] = pc[t] /\ job'[t] = job[t]
          /\ \A o \in POs : poLock'[o] = IF poLock[o] = s THEN None ELSE poLock[o]
      BY <2>3, <2>i, EndReleases DEF CreateInsert
    <3>b. /\ pc[s] = "create_insert" /\ status[po] = "absent" /\ status'[po] = "draft"
          /\ deleted' = deleted /\ \A o \in POs \ {po} : status'[o] = status[o]
      BY <2>3, <2>i DEF CreateInsert, TypeOK
    <3>c. \A o \in POs : poLock[o] # s
      BY <2>i, <3>b DEF SubmissionsHoldDrafts
    <3>d. poLock' = poLock
      BY <2>i, <3>1, <3>a, <3>c DEF TypeOK
    <3>e. \A t \in Sessions : t # s => pc'[t] = pc[t] /\ job'[t] = job[t]
      BY <2>3, <2>i, EndReleases DEF CreateInsert
    <3>3. SubmissionsHoldDrafts'
      <4>1. ASSUME NEW t \in Sessions, pc'[t] \in {"submit_sum", "submit_commit"}
            PROVE  /\ job'[t].po \in POs /\ poLock'[job'[t].po] = t
                   /\ status'[job'[t].po] = "draft" /\ job'[t].po \notin deleted'
        BY <2>i, <3>a, <3>b, <3>d, <4>1 DEF SubmissionsHoldDrafts
      <4>2. ASSUME NEW o \in POs, poLock'[o] # None
            PROVE  /\ pc'[poLock'[o]] \in {"submit_sum", "submit_commit"}
                   /\ job'[poLock'[o]].po = o
        BY <2>i, <3>c, <3>d, <3>e, <4>2 DEF SubmissionsHoldDrafts, TypeOK
      <4> QED
        BY <4>1, <4>2 DEF SubmissionsHoldDrafts
    <3>4. TotalIsLines'
      <4>1. job[s].lines \in Lines
        BY <2>i, <3>b DEF RowsOK
      <4>2. /\ lines'[po] = job[s].lines /\ total'[po] = Cents(LineSum(job[s].lines))
            /\ \A o \in POs \ {po} : lines'[o] = lines[o] /\ total'[o] = total[o]
        BY <2>3, <2>i DEF CreateInsert, TypeOK
      <4>3. 100 * total'[po] - LineSum(lines'[po]) \in -49 .. 50
        BY <4>1, <4>2, LinesTotal
      <4> QED
        BY <2>i, <3>b, <4>2, <4>3 DEF TotalIsLines
    <3>5. StampsTellPath'
      BY <2>3, <2>i, EndReleases DEF CreateInsert, StampsTellPath, TypeOK, Paths, RowsOK
    <3> QED
      BY <3>1, <3>2, <3>3, <3>4, <3>5 DEF IInv
  <2>4. ASSUME NEW po \in POs, NEW sup \in Suppliers, NEW p \in Products, NEW a \in LineTotals,
               CreateAuto(po, sup, p, a)
        PROVE  IInv'
    <3> DEFINE ls == [NoLines EXCEPT ![p] = a]
    <3>0. ls \in Lines
      BY DEF Lines, NoLines
    <3> HIDE DEF ls
    <3>1. TypeOK'
      BY <2>4, <2>i, <3>0, LinesTotal DEF CreateAuto, TypeOK, RowsOK, ls
    <3>2. RowsOK'
      BY <2>4, <2>i, <3>0 DEF CreateAuto, RowsOK, TypeOK, ls
    <3>3. SubmissionsHoldDrafts'
      BY <2>4, <2>i, <3>0 DEF CreateAuto, SubmissionsHoldDrafts, TypeOK, RowsOK, ls
    <3>4. TotalIsLines'
      BY <2>4, <2>i, <3>0, LinesTotal DEF CreateAuto, TotalIsLines, TypeOK, RowsOK, ls
    <3>5. StampsTellPath'
      BY <2>4, <2>i, <3>0 DEF CreateAuto, StampsTellPath, TypeOK, Paths, RowsOK, ls
    <3> QED
      BY <3>1, <3>2, <3>3, <3>4, <3>5 DEF IInv
  <2>5. ASSUME NEW po \in POs, NEW ls \in Lines,
               Update(po, ls)
        PROVE  IInv'
    <3>1. TypeOK'
      BY <2>5, <2>i, LinesTotal DEF Update, TypeOK, Available, Editable, RowsOK
    <3>2. RowsOK'
      BY <2>5, <2>i DEF Update, RowsOK, TypeOK, Available, Editable
    <3>3. SubmissionsHoldDrafts'
      BY <2>5, <2>i DEF Update, SubmissionsHoldDrafts, TypeOK, Available, Editable, RowsOK
    <3>4. TotalIsLines'
      BY <2>5, <2>i, LinesTotal DEF Update, TotalIsLines, TypeOK, Available, Editable, RowsOK
    <3>5. StampsTellPath'
      BY <2>5, <2>i DEF Update, StampsTellPath, TypeOK, Available, Paths, Editable, RowsOK
    <3> QED
      BY <3>1, <3>2, <3>3, <3>4, <3>5 DEF IInv
  <2>6. ASSUME NEW po \in POs,
               Delete(po)
        PROVE  IInv'
    <3>1. TypeOK'
      BY <2>6, <2>i DEF Delete, TypeOK, Available, Editable, RowsOK
    <3>2. RowsOK'
      BY <2>6, <2>i DEF Delete, RowsOK, TypeOK, Available, Editable
    <3>3. SubmissionsHoldDrafts'
      BY <2>6, <2>i DEF Delete, SubmissionsHoldDrafts, TypeOK, Available, Editable, RowsOK
    <3>4. TotalIsLines'
      BY <2>6, <2>i DEF Delete, TotalIsLines, TypeOK, Available, Editable, RowsOK
    <3>5. StampsTellPath'
      BY <2>6, <2>i DEF Delete, StampsTellPath, TypeOK, Available, Paths, Editable, RowsOK
    <3> QED
      BY <3>1, <3>2, <3>3, <3>4, <3>5 DEF IInv
  <2>7. ASSUME NEW po \in POs, NEW target \in {"acknowledged", "shipped", "cancelled"},
               Transition(po, target)
        PROVE  IInv'
    <3>1. TypeOK'
      BY <2>7, <2>i DEF Transition, TypeOK, Available
    <3>2. RowsOK'
      BY <2>7, <2>i DEF Transition, RowsOK, TypeOK, Available, LegalTransition, LEGAL_TRANSITIONS
    <3>3. SubmissionsHoldDrafts'
      BY <2>7, <2>i DEF Transition, SubmissionsHoldDrafts, TypeOK, Available, LegalTransition, LEGAL_TRANSITIONS
    <3>4. TotalIsLines'
      BY <2>7, <2>i DEF Transition, TotalIsLines, TypeOK, Available
    <3>5. StampsTellPath'
      <4>1. /\ status[po] \in POStatus /\ target \in LEGAL_TRANSITIONS[status[po]]
            /\ stamped[po] \in Paths[status[po]]
        BY <2>7, <2>i DEF Transition, Available, LegalTransition, TypeOK, StampsTellPath
      <4>2. /\ status'[po] = target /\ stamped'[po] = stamped[po] \cup {target}
            /\ \A o \in POs \ {po} : status'[o] = status[o] /\ stamped'[o] = stamped[o]
        BY <2>7, <2>i DEF Transition, TypeOK
      <4>3. stamped[po] \cup {target} \in Paths[target]
        <5>1. CASE status[po] = "draft"
          BY <4>1, <5>1 DEF Paths, LEGAL_TRANSITIONS
        <5>2. CASE status[po] = "submitted"
          BY <4>1, <5>2 DEF Paths, LEGAL_TRANSITIONS
        <5>3. CASE status[po] = "acknowledged"
          BY <4>1, <5>3 DEF Paths, LEGAL_TRANSITIONS
        <5>4. CASE status[po] \in {"shipped", "received", "closed", "cancelled"}
          BY <2>7, <4>1, <5>4 DEF LEGAL_TRANSITIONS
        <5> QED
          BY <4>1, <5>1, <5>2, <5>3, <5>4
      <4> QED
        BY <2>i, <4>2, <4>3 DEF StampsTellPath
    <3> QED
      BY <3>1, <3>2, <3>3, <3>4, <3>5 DEF IInv
  <2>8. ASSUME NEW po \in POs,
               Receive(po)
        PROVE  IInv'
    <3>1. TypeOK'
      BY <2>8, <2>i DEF Receive, TypeOK, Available
    <3>2. RowsOK'
      BY <2>8, <2>i DEF Receive, RowsOK, TypeOK, Available
    <3>3. SubmissionsHoldDrafts'
      BY <2>8, <2>i DEF Receive, SubmissionsHoldDrafts, TypeOK, Available
    <3>4. TotalIsLines'
      BY <2>8, <2>i DEF Receive, TotalIsLines, TypeOK, Available
    <3>5. StampsTellPath'
      BY <2>8, <2>i DEF Receive, StampsTellPath, TypeOK, Available, Paths
    <3> QED
      BY <3>1, <3>2, <3>3, <3>4, <3>5 DEF IInv
  <2>9. ASSUME NEW s \in Sessions, NEW po \in POs,
               SubmitLock(s, po)
        PROVE  IInv'
    <3>1. TypeOK'
      BY <2>9, <2>i DEF SubmitLock, TypeOK, Available, NoJob, rows, RowsOK
    <3>2. RowsOK'
      BY <2>9, <2>i DEF SubmitLock, RowsOK, TypeOK, Available, LegalTransition, LEGAL_TRANSITIONS, NoJob, rows
    <3>3. SubmissionsHoldDrafts'
      BY <2>9, <2>i DEF SubmitLock, SubmissionsHoldDrafts, TypeOK, Available, LegalTransition, LEGAL_TRANSITIONS, NoJob, rows, RowsOK
    <3>4. TotalIsLines'
      BY <2>9, <2>i DEF SubmitLock, TotalIsLines, TypeOK, Available, NoJob, rows, RowsOK
    <3>5. StampsTellPath'
      BY <2>9, <2>i DEF SubmitLock, StampsTellPath, TypeOK, Available, Paths, LegalTransition, LEGAL_TRANSITIONS, NoJob, rows, RowsOK
    <3> QED
      BY <3>1, <3>2, <3>3, <3>4, <3>5 DEF IInv
  <2>10. ASSUME NEW s \in Sessions,
               SubmitSum(s)
        PROVE  IInv'
    <3>1. TypeOK'
      BY <2>10, <2>i DEF SubmitSum, TypeOK, rows
    <3>2. RowsOK'
      BY <2>10, <2>i DEF SubmitSum, RowsOK, TypeOK, rows
    <3>3. SubmissionsHoldDrafts'
      BY <2>10, <2>i DEF SubmitSum, SubmissionsHoldDrafts, TypeOK, rows
    <3>4. TotalIsLines'
      BY <2>10, <2>i DEF SubmitSum, TotalIsLines, TypeOK, rows
    <3>5. StampsTellPath'
      BY <2>10, <2>i DEF SubmitSum, StampsTellPath, TypeOK, Paths, rows
    <3> QED
      BY <3>1, <3>2, <3>3, <3>4, <3>5 DEF IInv
  <2>11. ASSUME NEW s \in Sessions,
               SubmitCommit(s)
        PROVE  IInv'
    <3>1. TypeOK'
      BY <2>11, <2>i, EndReleases DEF SubmitCommit, TypeOK, SubmissionsHoldDrafts
    <3>2. RowsOK'
      BY <2>11, <2>i, EndReleases DEF SubmitCommit, RowsOK, TypeOK, SubmissionsHoldDrafts
    <3>3. SubmissionsHoldDrafts'
      BY <2>11, <2>i, EndReleases DEF SubmitCommit, SubmissionsHoldDrafts, TypeOK
    <3>4. TotalIsLines'
      BY <2>11, <2>i, EndReleases DEF SubmitCommit, TotalIsLines, TypeOK, SubmissionsHoldDrafts
    <3>5. StampsTellPath'
      <4>1. status[job[s].po] = "draft"
        BY <2>11, <2>i DEF SubmitCommit, SubmissionsHoldDrafts
      <4>2. stamped[job[s].po] = {}
        BY <2>11, <2>i, <4>1 DEF SubmitCommit, SubmissionsHoldDrafts, StampsTellPath, Paths
      <4>3. ASSUME NEW po \in POs PROVE stamped'[po] \in Paths[status'[po]]
        BY <2>11, <2>i, <4>1, <4>2, <4>3 DEF SubmitCommit, StampsTellPath, TypeOK, Paths
      <4> QED
        BY <4>3 DEF StampsTellPath, Paths
    <3> QED
      BY <3>1, <3>2, <3>3, <3>4, <3>5 DEF IInv
  <2>12. ASSUME NEW s \in Sessions,
               EndTransaction(s), UNCHANGED <<rows, active, limit>>
        PROVE  IInv'
    <3>1. TypeOK'
      BY <2>12, <2>i, EndReleases DEF rows, TypeOK
    <3>2. RowsOK'
      BY <2>12, <2>i, EndReleases DEF rows, RowsOK, TypeOK
    <3>3. SubmissionsHoldDrafts'
      BY <2>12, <2>i, EndReleases DEF rows, SubmissionsHoldDrafts, TypeOK
    <3>4. TotalIsLines'
      BY <2>12, <2>i, EndReleases DEF rows, TotalIsLines, TypeOK
    <3>5. StampsTellPath'
      BY <2>12, <2>i, EndReleases DEF rows, StampsTellPath, TypeOK, Paths
    <3> QED
      BY <3>1, <3>2, <3>3, <3>4, <3>5 DEF IInv
  <2>13. ASSUME NEW sup \in Suppliers,
               DeactivateSupplier(sup)
        PROVE  IInv'
    <3>1. TypeOK'
      BY <2>13, <2>i DEF DeactivateSupplier, TypeOK, rows
    <3>2. RowsOK'
      BY <2>13, <2>i DEF DeactivateSupplier, RowsOK, TypeOK, rows
    <3>3. SubmissionsHoldDrafts'
      BY <2>13, <2>i DEF DeactivateSupplier, SubmissionsHoldDrafts, TypeOK, rows
    <3>4. TotalIsLines'
      BY <2>13, <2>i DEF DeactivateSupplier, TotalIsLines, TypeOK, rows
    <3>5. StampsTellPath'
      BY <2>13, <2>i DEF DeactivateSupplier, StampsTellPath, TypeOK, Paths, rows
    <3> QED
      BY <3>1, <3>2, <3>3, <3>4, <3>5 DEF IInv
  <2>14. ASSUME NEW sup \in Suppliers,
               ActivateSupplier(sup)
        PROVE  IInv'
    <3>1. TypeOK'
      BY <2>14, <2>i DEF ActivateSupplier, TypeOK, rows
    <3>2. RowsOK'
      BY <2>14, <2>i DEF ActivateSupplier, RowsOK, TypeOK, rows
    <3>3. SubmissionsHoldDrafts'
      BY <2>14, <2>i DEF ActivateSupplier, SubmissionsHoldDrafts, TypeOK, rows
    <3>4. TotalIsLines'
      BY <2>14, <2>i DEF ActivateSupplier, TotalIsLines, TypeOK, rows
    <3>5. StampsTellPath'
      BY <2>14, <2>i DEF ActivateSupplier, StampsTellPath, TypeOK, Paths, rows
    <3> QED
      BY <3>1, <3>2, <3>3, <3>4, <3>5 DEF IInv
  <2>15. ASSUME NEW sup \in Suppliers, NEW l \in Limits,
               UpdateSupplierLimit(sup, l)
        PROVE  IInv'
    <3>1. TypeOK'
      BY <2>15, <2>i DEF UpdateSupplierLimit, TypeOK, rows
    <3>2. RowsOK'
      BY <2>15, <2>i DEF UpdateSupplierLimit, RowsOK, TypeOK, rows
    <3>3. SubmissionsHoldDrafts'
      BY <2>15, <2>i DEF UpdateSupplierLimit, SubmissionsHoldDrafts, TypeOK, rows
    <3>4. TotalIsLines'
      BY <2>15, <2>i DEF UpdateSupplierLimit, TotalIsLines, TypeOK, rows
    <3>5. StampsTellPath'
      BY <2>15, <2>i DEF UpdateSupplierLimit, StampsTellPath, TypeOK, Paths, rows
    <3> QED
      BY <3>1, <3>2, <3>3, <3>4, <3>5 DEF IInv
  <2> QED
    BY <2>1, <2>2, <2>3, <2>4, <2>5, <2>6, <2>7, <2>8, <2>9, <2>10, <2>11, <2>12, <2>13, <2>14, <2>15
    DEF Next, SubmitOverLimit, SubmitRefused, Abort
<1> QED
  BY <1>1, <1>2, PTL DEF Spec

\* Every column and every lock stays in its range.
THEOREM TypeCorrect == Spec => []TypeOK
<1>1. IInv => TypeOK
  BY DEF IInv
<1> QED
  BY <1>1, InductiveInvariant, PTL

\* total_amount is the sum of the line totals to the nearest cent.
THEOREM TotalsFollowLines == Spec => []TotalIsLines
<1>1. IInv => TotalIsLines
  BY DEF IInv
<1> QED
  BY <1>1, InductiveInvariant, PTL

\* The timestamps of an order are those of one legal path to its status.
THEOREM TimestampsTellPath == Spec => []StampsTellPath
<1>1. IInv => StampsTellPath
  BY DEF IInv
<1> QED
  BY <1>1, InductiveInvariant, PTL

-----------------------------------------------------------------------------
(* Refinement: what each step is in the order book. *)

\* Every step of the order service is a step of the abstract book or a stutter.
LEMMA StepsOfTheBook ==
  ASSUME IInv, [Next]_vars
  PROVE  [OB!Next]_(OB!book)
<1> DEFINE phase   == [po \in POs |-> IF po \in deleted THEN "deleted" ELSE status[po]]
           content == [po \in POs |-> [supplier |-> supplier[po], lines |-> lines[po]]]
<1>i. TypeOK /\ RowsOK /\ SubmissionsHoldDrafts
  BY DEF IInv
<1>0. ASSUME UNCHANGED <<status, supplier, lines, deleted>>
      PROVE  UNCHANGED <<phase, content>>
  BY <1>0
<1>1. CASE UNCHANGED vars
  BY <1>0, <1>1 DEF vars, rows, OB!book
<1>2. ASSUME NEW s \in Sessions, NEW po \in POs, CreateInsert(s, po) PROVE OB!Next
  <2>1. PICK c \in [supplier : Suppliers, lines : Lines] :
          c = [supplier |-> job[s].supplier, lines |-> job[s].lines]
    BY <1>2, <1>i DEF CreateInsert, RowsOK
  <2>2. phase[po] = "absent" /\ phase' = [phase EXCEPT ![po] = "draft"]
    BY <1>2, <1>i DEF CreateInsert, RowsOK, TypeOK
  <2>3. content' = [content EXCEPT ![po] = c]
    BY <1>2, <1>i, <2>1 DEF CreateInsert, TypeOK
  <2>4. OB!Enter(po, "draft", c)
    BY <2>2, <2>3 DEF OB!Enter
  <2> QED
    BY <2>4 DEF OB!Next
<1>3. ASSUME NEW po \in POs, NEW sup \in Suppliers, NEW p \in Products,
             NEW a \in LineTotals, CreateAuto(po, sup, p, a)
      PROVE  OB!Next
  <2> DEFINE ls == [NoLines EXCEPT ![p] = a]
             c  == [supplier |-> sup, lines |-> ls]
  <2>1. c \in [supplier : Suppliers, lines : Lines]
    BY DEF Lines, NoLines
  <2>2. phase[po] = "absent" /\ phase' = [phase EXCEPT ![po] = "submitted"]
    BY <1>3, <1>i DEF CreateAuto, RowsOK, TypeOK
  <2>3. content' = [content EXCEPT ![po] = c]
    BY <1>3, <1>i DEF CreateAuto, TypeOK
  <2>4. OB!Enter(po, "submitted", c)
    BY <2>2, <2>3 DEF OB!Enter
  <2> QED
    BY <2>1, <2>4 DEF OB!Next
<1>4. ASSUME NEW po \in POs, NEW ls \in Lines, Update(po, ls) PROVE OB!Next
  <2>1. PICK c \in [supplier : Suppliers, lines : Lines] :
          c = [supplier |-> supplier[po], lines |-> ls]
    BY <1>4, <1>i DEF Update, Editable, RowsOK
  <2>2. phase[po] = "draft" /\ UNCHANGED phase
    BY <1>4 DEF Update, Available, Editable
  <2>3. content' = [content EXCEPT ![po] = c]
    BY <1>4, <1>i, <2>1 DEF Update, TypeOK
  <2>4. OB!Edit(po, c)
    BY <2>2, <2>3 DEF OB!Edit
  <2> QED
    BY <2>4 DEF OB!Next
<1>5. ASSUME NEW po \in POs, Delete(po) PROVE OB!Next
  <2>1. phase[po] = "draft" /\ phase' = [phase EXCEPT ![po] = "deleted"]
    BY <1>5 DEF Delete, Available, Editable
  <2>2. UNCHANGED content
    BY <1>5 DEF Delete
  <2>3. OB!Discard(po)
    BY <2>1, <2>2 DEF OB!Discard
  <2> QED
    BY <2>3 DEF OB!Next
<1>6. ASSUME NEW po \in POs, NEW target \in POStatus, po \notin deleted,
             status[po] \in POStatus, LegalTransition(status[po], target),
             status' = [status EXCEPT ![po] = target],
             UNCHANGED <<supplier, lines, deleted>>
      PROVE  OB!Next
  <2>0. phase[po] = status[po]
    BY <1>6
  <2>1. phase' = [phase EXCEPT ![po] = target]
    BY <1>6, <1>i DEF TypeOK
  <2>2. UNCHANGED content
    BY <1>6
  <2>3. OB!Move(po, target)
    BY <1>6, <2>0, <2>1, <2>2 DEF OB!Move, OB!LegalTransition, LegalTransition,
                            OB!LEGAL_TRANSITIONS, LEGAL_TRANSITIONS, OB!POStatus
  <2> QED
    BY <2>3 DEF OB!Next, OB!POStatus
<1>7. ASSUME NEW po \in POs, NEW target \in {"acknowledged", "shipped", "cancelled"},
             Transition(po, target)
      PROVE  OB!Next
  BY <1>6, <1>7, <1>i DEF Transition, Available, TypeOK
<1>8. ASSUME NEW po \in POs, Receive(po) PROVE OB!Next
  <2>1. LegalTransition("shipped", "received")
    BY DEF LegalTransition, LEGAL_TRANSITIONS
  <2> QED
    BY <1>6, <1>8, <2>1 DEF Receive, Available
<1>9. ASSUME NEW s \in Sessions, SubmitCommit(s) PROVE OB!Next
  <2>1. LegalTransition("draft", "submitted")
    BY DEF LegalTransition, LEGAL_TRANSITIONS
  <2>2. /\ job[s].po \in POs /\ job[s].po \notin deleted
        /\ status[job[s].po] = "draft"
    BY <1>9, <1>i DEF SubmitCommit, SubmissionsHoldDrafts
  <2> QED
    BY <1>6, <1>9, <2>1, <2>2 DEF SubmitCommit
<1>10. ASSUME UNCHANGED rows PROVE UNCHANGED OB!book
  BY <1>0, <1>10 DEF rows, OB!book
<1> QED
  BY <1>1, <1>2, <1>3, <1>4, <1>5, <1>7, <1>8, <1>9, <1>10
  DEF Next, CreateRead, SubmitLock, SubmitSum, SubmitOverLimit, SubmitRefused, Abort,
      DeactivateSupplier, ActivateSupplier, UpdateSupplierLimit

\* The service implements the order book, whatever calls overlap: what was
\* submitted is what is shipped.
THEOREM OrderBookRefinement == Spec => ImplementsOrderBook
<1>1. Init => OB!Init
  BY DEF Init, OB!Init
<1>2. IInv /\ [Next]_vars => [OB!Next]_(OB!book)
  BY StepsOfTheBook
<1> QED
  BY <1>1, <1>2, InductiveInvariant, PTL DEF Spec, ImplementsOrderBook, OB!Spec

-----------------------------------------------------------------------------
(* The credit check. *)

\* A step that neither touches orders nor limits nor a session's call leaves what
\* that call has checked true.
LEMMA CheckKept ==
  ASSUME NEW s \in Sessions, UNCHANGED rows, job'[s] = job[s]
  PROVE  WithinLimit(s)' <=> WithinLimit(s)
<1> DEFINE po == job[s].po
           open == {o \in POs \ {po} :
                      supplier[o] = supplier[po] /\ o \notin deleted /\ status[o] \in OpenStatus}
<1>1. /\ status' = status /\ supplier' = supplier /\ total' = total /\ deleted' = deleted
      /\ po' = po
  BY DEF rows
<1>2. open' = open
  BY <1>1
<1>3. WithinLimit(s) <=> SumFunctionOnSet(total, open) + total[po] <= job[s].limit
  BY DEF WithinLimit, Exposure
<1>4. WithinLimit(s)' <=> SumFunctionOnSet(total', open') + total'[po'] <= job'[s].limit
  BY DEF WithinLimit, Exposure
<1> HIDE DEF open, po
<1> QED
  BY <1>1, <1>2, <1>3, <1>4

\* While calls run one at a time, what a submission has read and checked is still
\* so when it commits.
SerialOK ==
  ~overlap =>
    /\ \A s, t \in Sessions : pc[s] # "idle" /\ pc[t] # "idle" => s = t
    /\ \A s \in Sessions : pc[s] \in {"submit_sum", "submit_commit"} =>
         job[s].limit = limit[supplier[job[s].po]]
    /\ \A s \in Sessions : pc[s] = "submit_commit" => WithinLimit(s)

\* A transaction that ends leaves no call under way.
LEMMA SerialEnds ==
  ASSUME TypeOK, SerialOK, NEW s \in Sessions, pc[s] # "idle", EndTransaction(s), overlap' = overlap
  PROVE  SerialOK'
<1>1. pc'[s] = "idle" /\ \A t \in Sessions \ {s} : pc'[t] = pc[t]
  BY EndReleases
<1>2. ~overlap => \A t \in Sessions : pc'[t] = "idle"
  BY <1>1 DEF SerialOK
<1> QED
  BY <1>2 DEF SerialOK

\* A change made while no call is under way disturbs none.
LEMMA SerialUndisturbed ==
  ASSUME MayStart, pc' = pc, overlap' = overlap
  PROVE  SerialOK'
BY DEF MayStart, SerialOK

\* Every step keeps what the credit check relies on.
LEMMA SerialStep ==
  ASSUME IInv, SerialOK, [Next]_vars
  PROVE  SerialOK'
<1>i. TypeOK /\ SubmissionsHoldDrafts
  BY DEF IInv
<1>1. CASE UNCHANGED vars
  <2>1. UNCHANGED rows /\ job' = job /\ pc' = pc /\ limit' = limit /\ overlap' = overlap
        /\ supplier' = supplier
    BY <1>1 DEF vars, rows
  <2>2. \A s \in Sessions : WithinLimit(s)' <=> WithinLimit(s)
    BY <2>1, CheckKept
  <2> QED
    BY <2>1, <2>2 DEF SerialOK
<1>2. ASSUME NEW s \in Sessions, NEW sup \in Suppliers, NEW ls \in Lines, CreateRead(s, sup, ls)
      PROVE  SerialOK'
  <2>1. /\ pc' = [pc EXCEPT ![s] = "create_insert"] /\ overlap' = overlap /\ MayStart
    BY <1>2 DEF CreateRead
  <2>2. ~overlap => \A t \in Sessions : pc'[t] \in {"idle", "create_insert"} /\ (pc'[t] # "idle" => t = s)
    BY <1>i, <2>1 DEF MayStart, TypeOK
  <2> QED
    BY <2>1, <2>2 DEF SerialOK
<1>3. ASSUME NEW s \in Sessions, NEW po \in POs, SubmitLock(s, po)
      PROVE  SerialOK'
  <2>1. /\ pc' = [pc EXCEPT ![s] = "submit_sum"] /\ overlap' = overlap /\ MayStart
        /\ limit' = limit /\ supplier' = supplier
        /\ job' = [job EXCEPT ![s] = [NoJob EXCEPT !.po = po, !.limit = limit[supplier[po]]]]
    BY <1>3 DEF SubmitLock, rows
  <2>2. ~overlap => \A t \in Sessions : pc'[t] \in {"idle", "submit_sum"} /\ (pc'[t] # "idle" => t = s)
    BY <1>i, <2>1 DEF MayStart, TypeOK
  <2>3. job'[s].po = po /\ job'[s].limit = limit[supplier[po]]
    BY <1>i, <2>1 DEF TypeOK, NoJob
  <2> QED
    BY <2>1, <2>2, <2>3 DEF SerialOK
<1>4. ASSUME NEW s \in Sessions, SubmitSum(s)
      PROVE  SerialOK'
  <2>1. /\ pc[s] = "submit_sum" /\ WithinLimit(s) /\ UNCHANGED rows /\ job' = job /\ limit' = limit
        /\ overlap' = overlap /\ supplier' = supplier
        /\ pc'[s] = "submit_commit" /\ \A t \in Sessions \ {s} : pc'[t] = pc[t]
    BY <1>4, <1>i DEF SubmitSum, rows, TypeOK
  <2>2. WithinLimit(s)'
    BY <2>1, CheckKept
  <2>3. ~overlap => \A t \in Sessions : pc'[t] # "idle" => t = s
    BY <2>1 DEF SerialOK
  <2>4. ~overlap => job'[s].limit = limit'[supplier'[job'[s].po]]
    BY <2>1 DEF SerialOK
  <2> QED
    BY <2>1, <2>2, <2>3, <2>4 DEF SerialOK
<1>5. ASSUME NEW s \in Sessions,
             \/ \E po \in POs : CreateInsert(s, po)
             \/ SubmitOverLimit(s) \/ SubmitRefused(s) \/ SubmitCommit(s) \/ Abort(s)
      PROVE  SerialOK'
  <2>1. pc[s] # "idle" /\ EndTransaction(s) /\ overlap' = overlap
    BY <1>5 DEF CreateInsert, SubmitOverLimit, SubmitRefused, SubmitCommit, Abort
  <2> QED
    BY <1>i, <2>1, SerialEnds
<1>6. CASE \/ \E po \in POs :
                \/ \E sup \in Suppliers, p \in Products, a \in LineTotals : CreateAuto(po, sup, p, a)
                \/ \E ls \in Lines : Update(po, ls)
                \/ \E target \in {"acknowledged", "shipped", "cancelled"} : Transition(po, target)
                \/ Delete(po) \/ Receive(po)
           \/ \E sup \in Suppliers :
                \/ DeactivateSupplier(sup) \/ ActivateSupplier(sup)
                \/ \E l \in Limits : UpdateSupplierLimit(sup, l)
  <2>1. MayStart /\ pc' = pc /\ overlap' = overlap
    BY <1>6 DEF CreateAuto, Update, Transition, Delete, Receive, DeactivateSupplier,
                ActivateSupplier, UpdateSupplierLimit
  <2> QED
    BY <2>1, SerialUndisturbed
<1> QED
  BY <1>1, <1>2, <1>3, <1>4, <1>5, <1>6 DEF Next

\* An order leaves draft for submitted only by the commit of a submission that
\* holds it.
LEMMA SubmittedByCommit ==
  ASSUME IInv, [Next]_vars, NEW po \in POs, status[po] = "draft", status'[po] = "submitted"
  PROVE  \E s \in Sessions : SubmitCommit(s) /\ job[s].po = po
<1>i. TypeOK /\ SubmissionsHoldDrafts
  BY DEF IInv
<1>1. ASSUME NEW s \in Sessions, SubmitCommit(s)
      PROVE  job[s].po = po
  BY <1>1, <1>i DEF SubmitCommit, SubmissionsHoldDrafts, TypeOK
<1>2. ASSUME NEW q \in POs, NEW target \in {"acknowledged", "shipped", "cancelled"},
             Transition(q, target)
      PROVE  FALSE
  BY <1>2, <1>i DEF Transition, TypeOK
<1>3. ASSUME NEW q \in POs,
             \/ \E s \in Sessions : CreateInsert(s, q)
             \/ \E sup \in Suppliers, p \in Products, a \in LineTotals : CreateAuto(q, sup, p, a)
             \/ Receive(q)
      PROVE  FALSE
  BY <1>3, <1>i DEF CreateInsert, CreateAuto, Receive, TypeOK
<1>4. CASE status' = status
  BY <1>4
<1> QED
  BY <1>1, <1>2, <1>3, <1>4
  DEF Next, vars, rows, CreateRead, SubmitLock, SubmitSum, SubmitOverLimit, SubmitRefused, Abort,
      Update, Delete, DeactivateSupplier, ActivateSupplier, UpdateSupplierLimit

\* While calls run one at a time, no submission takes a supplier's open orders
\* over its credit limit as it is at the commit.
THEOREM CreditLimitHolds == Spec => CreditRespected
<1> DEFINE Respects ==
      ~overlap => \A po \in POs : status[po] = "draft" /\ status'[po] = "submitted" =>
        Exposure(supplier[po], po) + total[po] <= limit[supplier[po]]
<1>1. Init => SerialOK
  BY DEF Init, SerialOK
<1>2. ASSUME IInv, SerialOK, [Next]_vars PROVE Respects
  <2> SUFFICES ASSUME ~overlap, NEW po \in POs, status[po] = "draft", status'[po] = "submitted"
               PROVE  Exposure(supplier[po], po) + total[po] <= limit[supplier[po]]
    OBVIOUS
  <2>1. PICK s \in Sessions : SubmitCommit(s) /\ job[s].po = po
    BY <1>2, SubmittedByCommit
  <2>2. WithinLimit(s) /\ job[s].limit = limit[supplier[po]]
    BY <1>2, <2>1 DEF SubmitCommit, SerialOK
  <2> QED
    BY <2>1, <2>2 DEF WithinLimit
<1>3. IInv /\ SerialOK /\ [Next]_vars => SerialOK' /\ [Respects]_vars
  BY <1>2, SerialStep
<1>4. Spec => [][Respects]_vars
  BY <1>1, <1>3, InductiveInvariant, PTL DEF Spec
<1> QED
  BY <1>4 DEF CreditRespected

-----------------------------------------------------------------------------
(* Where the database refuses the sum. *)

\* Orders the supplier is asked for, or has delivered, came from the workflow.
OnlyWorkflowsSubmit ==
  sumRefused =>
    \A po \in POs : status[po] \in OpenStatus \cup {"received"} => po \in auto

\* No submission gets past the sum.
RefusalOK ==
  /\ OnlyWorkflowsSubmit
  /\ sumRefused => \A s \in Sessions : pc[s] # "submit_commit"

\* Orders in these statuses were placed by the workflow, or came from such a one.
LEMMA RefusalStep ==
  ASSUME IInv, RefusalOK, [Next]_vars
  PROVE  RefusalOK'
<1>i. TypeOK
  BY DEF IInv
<1>0. sumRefused' = sumRefused
  BY DEF Next, vars, CreateRead, CreateInsert, CreateAuto, Update, Delete, Transition, Receive,
         SubmitLock, SubmitSum, SubmitOverLimit, SubmitRefused, SubmitCommit, Abort,
         DeactivateSupplier, ActivateSupplier, UpdateSupplierLimit
<1> SUFFICES ASSUME sumRefused
             PROVE  /\ \A po \in POs : status'[po] \in OpenStatus \cup {"received"} => po \in auto'
                    /\ \A s \in Sessions : pc'[s] # "submit_commit"
  BY <1>0 DEF RefusalOK, OnlyWorkflowsSubmit
<1>j. /\ \A po \in POs : status[po] \in OpenStatus \cup {"received"} => po \in auto
      /\ \A s \in Sessions : pc[s] # "submit_commit"
  BY DEF RefusalOK, OnlyWorkflowsSubmit
<1>1. \A s \in Sessions : pc'[s] # "submit_commit"
  <2>1. ASSUME NEW s \in Sessions, EndTransaction(s) PROVE \A t \in Sessions : pc'[t] # "submit_commit"
    BY <1>i, <1>j, <2>1 DEF EndTransaction, TypeOK
  <2>2. ASSUME NEW s \in Sessions, NEW sup \in Suppliers, NEW ls \in Lines, CreateRead(s, sup, ls)
        PROVE  \A t \in Sessions : pc'[t] # "submit_commit"
    BY <1>i, <1>j, <2>2 DEF CreateRead, TypeOK
  <2>3. ASSUME NEW s \in Sessions, NEW po \in POs, SubmitLock(s, po)
        PROVE  \A t \in Sessions : pc'[t] # "submit_commit"
    BY <1>i, <1>j, <2>3 DEF SubmitLock, TypeOK
  <2>4. CASE pc' = pc
    BY <1>j, <2>4
  <2> QED
    BY <2>1, <2>2, <2>3, <2>4
    DEF Next, vars, CreateInsert, CreateAuto, Update, Delete, Transition, Receive, SubmitSum,
        SubmitOverLimit, SubmitRefused, SubmitCommit, Abort, DeactivateSupplier,
        ActivateSupplier, UpdateSupplierLimit
<1>2. \A po \in POs : status'[po] \in OpenStatus \cup {"received"} => po \in auto'
  <2> USE DEF OpenStatus
  <2>1. ASSUME NEW s \in Sessions, NEW q \in POs, CreateInsert(s, q), NEW po \in POs,
               status'[po] \in OpenStatus \cup {"received"}
        PROVE  po \in auto'
    BY <1>i, <1>j, <2>1 DEF CreateInsert, TypeOK
  <2>2. ASSUME NEW q \in POs, NEW sup \in Suppliers, NEW p \in Products, NEW a \in LineTotals,
               CreateAuto(q, sup, p, a), NEW po \in POs,
               status'[po] \in OpenStatus \cup {"received"}
        PROVE  po \in auto'
    BY <1>i, <1>j, <2>2 DEF CreateAuto, TypeOK
  <2>3. ASSUME NEW q \in POs, NEW target \in {"acknowledged", "shipped", "cancelled"},
               Transition(q, target), NEW po \in POs,
               status'[po] \in OpenStatus \cup {"received"}
        PROVE  po \in auto'
    <3>1. auto' = auto /\ status' = [status EXCEPT ![q] = target]
      BY <2>3 DEF Transition
    <3>2. CASE po = q
      <4>1. target \in {"acknowledged", "shipped"} /\ status[q] \in POStatus
        BY <1>i, <2>3, <3>1, <3>2 DEF TypeOK, Transition, Available
      <4>2. status[q] \in {"submitted", "acknowledged"}
        BY <2>3, <4>1 DEF Transition, LegalTransition, LEGAL_TRANSITIONS
      <4> QED
        BY <1>j, <3>1, <3>2, <4>2
    <3>3. CASE po # q
      BY <1>i, <1>j, <2>3, <3>1, <3>3 DEF TypeOK
    <3> QED
      BY <3>2, <3>3
  <2>4. ASSUME NEW q \in POs, Receive(q), NEW po \in POs,
               status'[po] \in OpenStatus \cup {"received"}
        PROVE  po \in auto'
    BY <1>i, <1>j, <2>4 DEF Receive, TypeOK
  <2>5. CASE status' = status /\ auto' = auto
    BY <1>j, <2>5
  <2>6. ASSUME NEW s \in Sessions, SubmitCommit(s) PROVE FALSE
    BY <1>j, <2>6 DEF SubmitCommit
  <2> QED
    BY <2>1, <2>2, <2>3, <2>4, <2>5, <2>6
    DEF Next, vars, rows, CreateRead, SubmitLock, SubmitSum, SubmitOverLimit, SubmitRefused, Abort,
        Update, Delete, DeactivateSupplier, ActivateSupplier, UpdateSupplierLimit
<1> QED
  BY <1>1, <1>2

\* What the violation of WithinLimitSubmits comes to: where the database refuses
\* the sum, no call takes an order out of draft but to cancel it, and every
\* order further along was placed by the reorder workflow.
THEOREM NobodyElseSubmits == Spec => []OnlyWorkflowsSubmit
<1>1. Init => RefusalOK
  BY DEF Init, RefusalOK, OnlyWorkflowsSubmit, OpenStatus
<1>2. IInv /\ RefusalOK /\ [Next]_vars => RefusalOK'
  BY RefusalStep
<1>3. RefusalOK => OnlyWorkflowsSubmit
  BY DEF RefusalOK
<1> QED
  BY <1>1, <1>2, <1>3, InductiveInvariant, PTL DEF Spec

=============================================================================
