--------------------------- MODULE PurchaseOrders ---------------------------
(***************************************************************************)
(* Purchase orders: backend/app/services/purchase_order_service.py, over   *)
(* the rows of purchase_orders, po_lines and suppliers.                    *)
(*                                                                         *)
(* Every call is one transaction at READ COMMITTED.  update, cancel,       *)
(* acknowledge, mark-shipped and delete lock the order's row and touch     *)
(* nothing else, so each is one step.  submit locks the row, then sums     *)
(* the supplier's other open orders, then writes: other calls commit in    *)
(* between.  create reads the supplier and inserts later.                  *)
(*                                                                         *)
(* Money: line totals are in ten-thousandths (Numeric(12,4)), order totals *)
(* and credit limits in hundredths (Numeric(12,2)).                        *)
(***************************************************************************)
EXTENDS Integers, FiniteSets, Functions, POStateMachine

CONSTANTS
  Sessions, POs, Suppliers, Products,
  LineTotals,    \* quantity * unit_price of a line
  Limits,        \* credit limits a supplier may be given
  Failures,      \* bound: may a call fail half-way?
  None

ASSUME NoneAssumption == None \notin Sessions \cup POs \cup Suppliers
\* schemas/purchase_order.py: quantity_ordered > 0, unit_price > 0.
ASSUME AmountsAssumption == LineTotals \subseteq Nat \ {0} /\ Limits \subseteq Nat
ASSUME BoundsAssumption == Failures \in BOOLEAN
\* An order names products of the table, of which there are finitely many.
ASSUME ProductsAssumption == IsFiniteSet(Products)

VARIABLES
  status,        \* purchase_orders.status, "absent" before the row exists
  supplier,      \* purchase_orders.supplier_id
  lines,         \* po_lines.line_total of each order and product, 0 = no line
  total,         \* purchase_orders.total_amount
  stamped,       \* the statuses whose timestamp column is set
  deleted,       \* orders with deleted_at set
  auto,          \* orders with auto_generated set
  active,        \* suppliers with is_active set and deleted_at not set
  limit,         \* suppliers.credit_limit
  sumRefused,    \* does the database refuse SELECT SUM(..) FOR UPDATE?
  overlap,       \* may calls overlap, or do they come one at a time?
  poLock,        \* session holding an order's row FOR UPDATE
  pc, job        \* where each session is in its call, and what it works on

rows  == <<status, supplier, lines, total, stamped, deleted, auto>>
vars  == <<rows, active, limit, sumRefused, overlap, poLock, pc, job>>

-----------------------------------------------------------------------------
PC == {"idle", "create_insert", "submit_sum", "submit_commit"}
NoLines == [p \in Products |-> 0]
Lines   == [Products -> LineTotals \cup {0}] \ {NoLines}
NoJob   == [po |-> None, supplier |-> None, lines |-> NoLines, limit |-> 0]

TypeOK ==
  /\ status \in [POs -> POStatus \cup {"absent"}]
  /\ supplier \in [POs -> Suppliers \cup {None}]
  /\ lines \in [POs -> Lines \cup {NoLines}]
  /\ total \in [POs -> Nat]
  /\ stamped \in [POs -> SUBSET POStatus]
  /\ deleted \subseteq POs
  /\ auto \subseteq POs
  /\ active \subseteq Suppliers
  /\ limit \in [Suppliers -> Limits]
  /\ poLock \in [POs -> Sessions \cup {None}]
  /\ pc \in [Sessions -> PC]
  /\ job \in [Sessions -> [po : POs \cup {None}, supplier : Suppliers \cup {None},
                           lines : Lines \cup {NoLines}, limit : Nat]]

-----------------------------------------------------------------------------
\* The database rounds the sum of the line totals to whole cents.
CentsMutant(x) == x \div 100
Cents(x) == (x + 50) \div 100

LineSum(ls) == SumFunctionOnSet(ls, Products)

\* get_by_id_for_update returns the row at once: it is there and not locked.
AvailableMutant(po) == status[po] # "absent" /\ po \notin deleted
Available(po) == status[po] # "absent" /\ po \notin deleted /\ poLock[po] = None

\* The sum of the supplier's other open orders.
Exposure(sup, po) ==
  SumFunctionOnSet(total,
    {o \in POs \ {po} : supplier[o] = sup /\ o \notin deleted /\ status[o] \in OpenStatus})

\* The open orders and this one stay within the limit read before.
WithinLimitMutant(s) == LET po == job[s].po IN
  Exposure(supplier[po], po) <= job[s].limit
WithinLimit(s) == LET po == job[s].po IN
  Exposure(supplier[po], po) + total[po] <= job[s].limit

\* Only a draft may be edited or deleted.
EditableMutant(po) == status[po] \in {"draft", "submitted"}
Editable(po) == status[po] = "draft"

MayStart == overlap \/ \A s \in Sessions : pc[s] = "idle"

\* The transaction ends, committed or rolled back: locks and local state go.
EndTransaction(s) ==
  /\ poLock' = [po \in POs |-> IF poLock[po] = s THEN None ELSE poLock[po]]
  /\ pc' = [pc EXCEPT ![s] = "idle"]
  /\ job' = [job EXCEPT ![s] = NoJob]

-----------------------------------------------------------------------------
Init ==
  /\ status = [po \in POs |-> "absent"]
  /\ supplier = [po \in POs |-> None]
  /\ lines = [po \in POs |-> NoLines]
  /\ total = [po \in POs |-> 0]
  /\ stamped = [po \in POs |-> {}]
  /\ deleted = {}
  /\ auto = {}
  /\ active = Suppliers
  /\ limit \in [Suppliers -> Limits]
  /\ sumRefused \in BOOLEAN
  /\ overlap \in BOOLEAN
  /\ poLock = [po \in POs |-> None]
  /\ pc = [s \in Sessions |-> "idle"]
  /\ job = [s \in Sessions |-> NoJob]

\* create_purchase_order reads the supplier, which must be active.
CreateRead(s, sup, ls) ==
  /\ pc[s] = "idle" /\ MayStart
  /\ sup \in active
  /\ pc' = [pc EXCEPT ![s] = "create_insert"]
  /\ job' = [job EXCEPT ![s] = [NoJob EXCEPT !.supplier = sup, !.lines = ls]]
  /\ UNCHANGED <<rows, active, limit, poLock, sumRefused, overlap>>

\* The order, its lines and its total are inserted and committed.
CreateInsert(s, po) ==
  /\ pc[s] = "create_insert"
  /\ status[po] = "absent"
  /\ status' = [status EXCEPT ![po] = "draft"]
  /\ supplier' = [supplier EXCEPT ![po] = job[s].supplier]
  /\ lines' = [lines EXCEPT ![po] = job[s].lines]
  /\ total' = [total EXCEPT ![po] = Cents(LineSum(job[s].lines))]
  /\ EndTransaction(s)
  /\ UNCHANGED <<stamped, deleted, auto, active, limit, sumRefused, overlap>>

\* create_auto_reorder_po inserts an order that is submitted from the start,
\* with no credit check.
CreateAuto(po, sup, p, amount) == LET ls == [NoLines EXCEPT ![p] = amount] IN
  /\ MayStart
  /\ status[po] = "absent"
  /\ sup \in active
  /\ status' = [status EXCEPT ![po] = "submitted"]
  /\ supplier' = [supplier EXCEPT ![po] = sup]
  /\ lines' = [lines EXCEPT ![po] = ls]
  /\ total' = [total EXCEPT ![po] = Cents(LineSum(ls))]
  /\ stamped' = [stamped EXCEPT ![po] = {"submitted"}]
  /\ auto' = auto \cup {po}
  /\ UNCHANGED <<deleted, active, limit, poLock, pc, job, sumRefused, overlap>>

\* update_purchase_order replaces the lines and recalculates the total.
Update(po, ls) ==
  /\ MayStart
  /\ Available(po)
  /\ Editable(po)
  /\ lines' = [lines EXCEPT ![po] = ls]
  /\ total' = [total EXCEPT ![po] = Cents(LineSum(ls))]
  /\ UNCHANGED <<status, supplier, stamped, deleted, auto,
                 active, limit, poLock, pc, job, sumRefused, overlap>>

\* delete_purchase_order.
Delete(po) ==
  /\ MayStart
  /\ Available(po)
  /\ Editable(po)
  /\ deleted' = deleted \cup {po}
  /\ UNCHANGED <<status, supplier, lines, total, stamped, auto,
                 active, limit, poLock, pc, job, sumRefused, overlap>>

\* acknowledge, mark-shipped, cancel: _transition checks and writes the status
\* and the timestamp that goes with it.
Transition(po, target) ==
  /\ MayStart
  /\ Available(po)
  /\ LegalTransition(status[po], target)
  /\ status' = [status EXCEPT ![po] = target]
  /\ stamped' = [stamped EXCEPT ![po] = @ \cup {target}]
  /\ UNCHANGED <<supplier, lines, total, deleted, auto,
                 active, limit, poLock, pc, job, sumRefused, overlap>>

\* complete_grn marks a shipped order received (see GoodsReceipt).
Receive(po) ==
  /\ MayStart
  /\ Available(po)
  /\ status[po] = "shipped"
  /\ status' = [status EXCEPT ![po] = "received"]
  /\ stamped' = [stamped EXCEPT ![po] = @ \cup {"received"}]
  /\ UNCHANGED <<supplier, lines, total, deleted, auto,
                 active, limit, poLock, pc, job, sumRefused, overlap>>

-----------------------------------------------------------------------------
(* submit_purchase_order. *)

\* The row is locked, the status must allow it, the supplier must be active.
SubmitLock(s, po) ==
  /\ pc[s] = "idle" /\ MayStart
  /\ Available(po)
  /\ LegalTransition(status[po], "submitted")
  /\ supplier[po] \in active
  /\ poLock' = [poLock EXCEPT ![po] = s]
  /\ pc' = [pc EXCEPT ![s] = "submit_sum"]
  /\ job' = [job EXCEPT ![s] = [NoJob EXCEPT !.po = po, !.limit = limit[supplier[po]]]]
  /\ UNCHANGED <<rows, active, limit, sumRefused, overlap>>

\* The other open orders are summed, and the limit allows this one too.
SubmitSum(s) ==
  /\ pc[s] = "submit_sum"
  /\ ~sumRefused
  /\ WithinLimit(s)
  /\ pc' = [pc EXCEPT ![s] = "submit_commit"]
  /\ UNCHANGED <<rows, active, limit, poLock, job, sumRefused, overlap>>

\* CreditLimitExceededException.
SubmitOverLimit(s) ==
  /\ pc[s] = "submit_sum"
  /\ ~sumRefused
  /\ ~WithinLimit(s)
  /\ EndTransaction(s)
  /\ UNCHANGED <<rows, active, limit, sumRefused, overlap>>

\* "FOR UPDATE is not allowed with aggregate functions".
SubmitRefused(s) ==
  /\ pc[s] = "submit_sum"
  /\ sumRefused
  /\ EndTransaction(s)
  /\ UNCHANGED <<rows, active, limit, sumRefused, overlap>>

SubmitCommit(s) ==
  /\ pc[s] = "submit_commit"
  /\ status' = [status EXCEPT ![job[s].po] = "submitted"]
  /\ stamped' = [stamped EXCEPT ![job[s].po] = @ \cup {"submitted"}]
  /\ EndTransaction(s)
  /\ UNCHANGED <<supplier, lines, total, deleted, auto, active, limit, sumRefused, overlap>>

\* The call fails, or its process dies, before the commit: all is rolled back.
Abort(s) ==
  /\ Failures
  /\ pc[s] # "idle"
  /\ EndTransaction(s)
  /\ UNCHANGED <<rows, active, limit, sumRefused, overlap>>

-----------------------------------------------------------------------------
(* supplier_service.py, as far as orders depend on it.  To delete a supplier  *)
(* is, for the order service, to deactivate it for good.                      *)

DeactivateSupplier(sup) ==
  /\ MayStart
  /\ active' = active \ {sup}
  /\ UNCHANGED <<rows, limit, poLock, pc, job, sumRefused, overlap>>

ActivateSupplier(sup) ==
  /\ MayStart
  /\ active' = active \cup {sup}
  /\ UNCHANGED <<rows, limit, poLock, pc, job, sumRefused, overlap>>

UpdateSupplierLimit(sup, l) ==
  /\ MayStart
  /\ limit' = [limit EXCEPT ![sup] = l]
  /\ UNCHANGED <<rows, active, poLock, pc, job, sumRefused, overlap>>

Next ==
  \/ \E s \in Sessions :
       \/ \E sup \in Suppliers, ls \in Lines : CreateRead(s, sup, ls)
       \/ \E po \in POs : CreateInsert(s, po) \/ SubmitLock(s, po)
       \/ SubmitSum(s) \/ SubmitOverLimit(s) \/ SubmitRefused(s) \/ SubmitCommit(s)
       \/ Abort(s)
  \/ \E po \in POs :
       \/ \E sup \in Suppliers, p \in Products, a \in LineTotals : CreateAuto(po, sup, p, a)
       \/ \E ls \in Lines : Update(po, ls)
       \/ \E target \in {"acknowledged", "shipped", "cancelled"} : Transition(po, target)
       \/ Delete(po) \/ Receive(po)
  \/ \E sup \in Suppliers :
       \/ DeactivateSupplier(sup) \/ ActivateSupplier(sup)
       \/ \E l \in Limits : UpdateSupplierLimit(sup, l)

Spec == Init /\ [][Next]_vars

-----------------------------------------------------------------------------
(* Safety, whatever calls overlap. *)

OB == INSTANCE OrderBook WITH
  Orders   <- POs,
  Contents <- [supplier : Suppliers, lines : Lines],
  Blank    <- [supplier |-> None, lines |-> NoLines],
  phase    <- [po \in POs |-> IF po \in deleted THEN "deleted" ELSE status[po]],
  content  <- [po \in POs |-> [supplier |-> supplier[po], lines |-> lines[po]]]

\* The service keeps the promise of an order book although submit spreads its
\* reads and writes over several statements: an order's supplier and lines are
\* fixed once it is submitted, its status moves legally, deletion is final.
ImplementsOrderBook == OB!Spec

\* total_amount, recalculated by hand after every change of the lines, is the
\* sum of the line totals to the nearest cent: what the credit check adds up.
TotalIsLines ==
  \A po \in POs : status[po] # "absent" =>
    100 * total[po] - LineSum(lines[po]) \in -49 .. 50

\* The timestamp columns tell the path an order has taken through the state
\* machine: every handler stamps exactly the status it writes.
Paths ==
  [ absent       |-> {{}},
    draft        |-> {{}},
    submitted    |-> {{"submitted"}},
    acknowledged |-> {{"submitted", "acknowledged"}},
    shipped      |-> {{"submitted", "acknowledged", "shipped"}},
    received     |-> {{"submitted", "acknowledged", "shipped", "received"}},
    closed       |-> {},
    cancelled    |-> {{"cancelled"}, {"submitted", "cancelled"}} ]
StampsTellPath == \A po \in POs : stamped[po] \in Paths[status[po]]

\* Between its lock and its commit a submission works on an undeleted draft of
\* which it holds the row, and nobody else holds a lock.
SubmissionsHoldDrafts ==
  /\ \A s \in Sessions : pc[s] \in {"submit_sum", "submit_commit"} =>
       LET po == job[s].po
       IN po \in POs /\ poLock[po] = s /\ status[po] = "draft" /\ po \notin deleted
  /\ \A po \in POs : poLock[po] # None =>
       pc[poLock[po]] \in {"submit_sum", "submit_commit"} /\ job[poLock[po]].po = po

\* Rows not there yet are blank, deleted orders are drafts, and a creation
\* under way has a supplier and lines to insert.
RowsOK ==
  /\ \A po \in POs : IF status[po] = "absent"
                      THEN supplier[po] = None /\ lines[po] = NoLines /\ po \notin deleted
                      ELSE supplier[po] \in Suppliers /\ lines[po] \in Lines
  /\ \A po \in deleted : status[po] = "draft"
  /\ \A s \in Sessions : pc[s] = "create_insert" =>
       job[s].supplier \in Suppliers /\ job[s].lines \in Lines

\* The inductive invariant.
IInv ==
  /\ TypeOK
  /\ RowsOK
  /\ SubmissionsHoldDrafts
  /\ TotalIsLines
  /\ StampsTellPath

-----------------------------------------------------------------------------
(* The credit check. *)

\* A submission leaves the supplier's open orders within its credit limit:
\* true while calls run one at a time.  The row lock of submit is on its own
\* order only, so two overlapping submissions to one supplier could break it.
CreditRespected ==
  [][~overlap => \A po \in POs : status[po] = "draft" /\ status'[po] = "submitted" =>
       Exposure(supplier[po], po) + total[po] <= limit[supplier[po]]]_vars

\* specs/phase-3-po-lifecycle.spec.md:129: "If within limit: update status to
\* submitted".  A submission that has passed its other checks, and whose order
\* fits the limit, ends with the order submitted (but for crashes: Failures).
\* Violated: the database refuses the statement that sums the open orders.
WithinLimitSubmits ==
  [][\A s \in Sessions :
       pc[s] \in {"submit_sum", "submit_commit"} /\ pc'[s] = "idle" /\ WithinLimit(s)
         => status'[job[s].po] = "submitted"]_vars

=============================================================================
