---------------------------- MODULE GoodsReceipt ----------------------------
(***************************************************************************)
(* Goods receipt: backend/app/services/grn_service.py with the part of     *)
(* stock_ledger_service.py it calls, over the rows of purchase_orders,     *)
(* grns, grn_lines, products, stock_ledger and backorders.                 *)
(*                                                                         *)
(* Every call runs in a session of its own, as one PostgreSQL transaction  *)
(* at READ COMMITTED.  A call is cut where another transaction can be seen *)
(* to intervene: at an unlocked read whose result is used later, at a      *)
(* SELECT ... FOR UPDATE, which waits while another transaction holds the  *)
(* row, and at an INSERT whose foreign key takes the row it refers to FOR  *)
(* KEY SHARE, which waits for FOR UPDATE and which FOR UPDATE waits for.   *)
(* Writes stay private to the transaction and are installed by the step    *)
(* that commits it.  create_grn and the lifecycle call mark-shipped read   *)
(* only the row they lock, so each is a single step.                       *)
(***************************************************************************)
EXTENDS Integers, Sequences, FiniteSets, Functions, POStateMachine

CONSTANTS
  Sessions,      \* concurrent calls (one database session each)
  POs, Products, GRNs,
  Quantities,    \* quantities a GRN line may carry
  Ordered,       \* [POs -> [Products -> Nat]]: quantity_ordered, 0 = not on the PO
  Deletable,     \* bound: the products an instance lets be deleted
  ReorderPoint,  \* [Products -> Nat]
  Override,      \* [Products -> Nat \cup {None}]: low_stock_threshold_override
  None

ASSUME NoneAssumption == None \notin Sessions \cup POs \cup Products \cup GRNs \cup Nat
\* schemas/grn.py: quantity_received > 0.
ASSUME QuantitiesAssumption == Quantities \subseteq Nat \ {0}
ASSUME OrderedAssumption == Ordered \in [POs -> [Products -> Nat]]
ASSUME DeletableAssumption == Deletable \subseteq Products
ASSUME ThresholdAssumption ==
  /\ ReorderPoint \in [Products -> Nat]
  /\ Override \in [Products -> Nat \cup {None}]

VARIABLES
  poStatus,      \* purchase_orders.status
  grn,           \* grns: [status, po, reorder]
  line,          \* grn_lines.quantity_received by GRN and product, 0 = no line
  received,      \* what get_total_received_for_po_line sums for each PO line
  deleted,       \* products with deleted_at set
  stock,         \* products.current_stock
  ledger,        \* stock_ledger rows of each product, oldest first
  backorders,    \* backorders rows of each PO line, oldest first
  poLock,        \* session holding the FOR UPDATE lock of a PO row
  productLock,   \* session holding the FOR UPDATE lock of a product row
  keyShare,      \* products whose rows a session's backorders hold FOR KEY SHARE
  pc,            \* where each session is in its call
  job,           \* the GRN, product and quantity the call is about
  seen,          \* complete_grn: the lines it read (grn_lines)
  todo,          \* complete_grn: products of the lines its loop has still to take
  balance,       \* complete_grn: the uncommitted current_stock it wrote
  short          \* complete_grn: quantity it found outstanding on each PO line

rows  == <<poStatus, grn, line, received, deleted, stock, ledger, backorders>>
locks == <<poLock, productLock, keyShare>>
local == <<pc, job, seen, todo, balance, short>>
vars  == <<rows, locks, local>>

-----------------------------------------------------------------------------
PC == {"idle", "add_check", "add_insert", "lock_po", "post", "assess"}
Nothing  == [p \in Products |-> 0]
NoJob    == [grn |-> None, product |-> None, qty |-> 0]
NoGrn    == [status |-> "none", po |-> None, reorder |-> FALSE]
Entry     == [change : Int, balance : Int, reference : GRNs]
Backorder == [received : Int, outstanding : Nat, grn : GRNs]

TypeOK ==
  /\ poStatus \in [POs -> POStatus]
  /\ grn \in [GRNs -> [status : {"none", "open", "completed"},
                       po : POs \cup {None}, reorder : BOOLEAN]]
  /\ line \in [GRNs -> [Products -> Nat]]
  /\ received \in [POs -> [Products -> Nat]]
  /\ deleted \in SUBSET Products
  /\ stock \in [Products -> Int]
  /\ ledger \in [Products -> Seq(Entry)]
  /\ backorders \in [POs -> [Products -> Seq(Backorder)]]
  /\ poLock \in [POs -> Sessions \cup {None}]
  /\ productLock \in [Products -> Sessions \cup {None}]
  /\ keyShare \in [Sessions -> SUBSET Products]
  /\ pc \in [Sessions -> PC]
  /\ job \in [Sessions -> [grn : GRNs \cup {None}, product : Products \cup {None},
                           qty : Nat]]
  /\ seen \in [Sessions -> [Products -> Nat]]
  /\ todo \in [Sessions -> SUBSET Products]
  /\ balance \in [Sessions -> [Products -> Int]]
  /\ short \in [Sessions -> [Products -> Nat]]

-----------------------------------------------------------------------------
(* Operators whose name ends in Mutant are mutated forms of the definition     *)
(* that follows; no action uses them.                                          *)

\* The PO of the GRN session s works on.
JobPO(s) == grn[job[s].grn].po

\* A GRN that lines can be added to and that can be completed.
OpenGrnMutant(g) == grn[g].status # "none"
OpenGrn(g) == grn[g].status = "open"

\* A PO that GRNs can be created for.
ReceivableMutant(po) == poStatus[po] \in {"acknowledged", "shipped"}
Receivable(po) == poStatus[po] = "shipped"

\* uq_grn_lines_grn_product.
NoLineYetMutant(g, p) == TRUE
NoLineYet(g, p) == line[g][p] = 0

\* No other transaction holds the row FOR UPDATE.
POFreeMutant(po) == TRUE
POFree(po) == poLock[po] = None
ProductFreeMutant(p) == TRUE
ProductFree(p) == productLock[p] = None

\* A row that a backorder refers to is not locked FOR UPDATE either.
NotReferred(p) == \A s \in Sessions : p \notin keyShare[s]

Received(g) == {p \in Products : line[g][p] > 0}

OutstandingMutant(po, p) ==
  IF received[po][p] + 1 < Ordered[po][p] THEN Ordered[po][p] - received[po][p] ELSE 0
Outstanding(po, p) ==
  IF received[po][p] < Ordered[po][p] THEN Ordered[po][p] - received[po][p] ELSE 0

Threshold(p) ==
  IF Override[p] # None /\ Override[p] # 0 THEN Override[p] ELSE ReorderPoint[p]

\* The balance a completion wrote is low.
NeedsReorderMutant(s, p) == stock[p] <= Threshold(p)
NeedsReorder(s, p) == balance[s][p] <= Threshold(p)

ReleaseMutant(s) ==
  /\ poLock' = [po \in POs |-> IF poLock[po] = s THEN None ELSE poLock[po]]
  /\ UNCHANGED <<productLock, keyShare>>
Release(s) ==
  /\ poLock' = [po \in POs |-> IF poLock[po] = s THEN None ELSE poLock[po]]
  /\ productLock' = [p \in Products |-> IF productLock[p] = s THEN None
                                        ELSE productLock[p]]
  /\ keyShare' = [keyShare EXCEPT ![s] = {}]

\* The session's transaction is over: its locks and its workspace are gone.
EndTransaction(s) ==
  /\ pc' = [pc EXCEPT ![s] = "idle"]
  /\ job' = [job EXCEPT ![s] = NoJob]
  /\ seen' = [seen EXCEPT ![s] = Nothing]
  /\ todo' = [todo EXCEPT ![s] = {}]
  /\ balance' = [balance EXCEPT ![s] = Nothing]
  /\ short' = [short EXCEPT ![s] = Nothing]
  /\ Release(s)

-----------------------------------------------------------------------------
Init ==
  /\ poStatus = [po \in POs |-> "acknowledged"]
  /\ grn = [g \in GRNs |-> NoGrn]
  /\ line = [g \in GRNs |-> Nothing]
  /\ received = [po \in POs |-> Nothing]
  /\ deleted = {}
  /\ stock = Nothing
  /\ ledger = [p \in Products |-> <<>>]
  /\ backorders = [po \in POs |-> [p \in Products |-> <<>>]]
  /\ poLock = [po \in POs |-> None]
  /\ productLock = [p \in Products |-> None]
  /\ keyShare = [s \in Sessions |-> {}]
  /\ pc = [s \in Sessions |-> "idle"]
  /\ job = [s \in Sessions |-> NoJob]
  /\ seen = [s \in Sessions |-> Nothing]
  /\ todo = [s \in Sessions |-> {}]
  /\ balance = [s \in Sessions |-> Nothing]
  /\ short = [s \in Sessions |-> Nothing]

\* mark_shipped_purchase_order, the lifecycle call that opens a PO for receipt.
MarkShipped(po) ==
  /\ POFree(po)
  /\ LegalTransition(poStatus[po], "shipped")
  /\ poStatus' = [poStatus EXCEPT ![po] = "shipped"]
  /\ UNCHANGED <<grn, line, received, deleted, stock, ledger, backorders, locks, local>>

\* delete_product: a soft delete, allowed whatever POs and GRNs refer to it.
\* An UPDATE of no key column, it does not wait for a FOR KEY SHARE lock.
DeleteProduct(p) ==
  /\ ProductFree(p)
  /\ p \notin deleted
  /\ deleted' = deleted \cup {p}
  /\ UNCHANGED <<poStatus, grn, line, received, stock, ledger, backorders, locks, local>>

\* create_grn: the PO row is locked, must be shipped, and a GRN is inserted.
CreateGrn(g, po) ==
  /\ grn[g].status = "none"
  /\ POFree(po)
  /\ Receivable(po)
  /\ grn' = [grn EXCEPT ![g] = [status |-> "open", po |-> po, reorder |-> FALSE]]
  /\ UNCHANGED <<poStatus, line, received, deleted, stock, ledger, backorders, locks, local>>

-----------------------------------------------------------------------------
(* add_line, whose reads take no lock. *)

\* The GRN is open, has no line for the product yet, and its PO has one.
AddLineRead(s, g, p, q) ==
  /\ pc[s] = "idle"
  /\ OpenGrn(g)
  /\ NoLineYet(g, p)
  /\ Ordered[grn[g].po][p] > 0
  /\ pc' = [pc EXCEPT ![s] = "add_check"]
  /\ job' = [job EXCEPT ![s] = [grn |-> g, product |-> p, qty |-> q]]
  /\ UNCHANGED <<rows, locks, seen, todo, balance, short>>

\* The requested quantity fits what no GRN line of the PO covers yet.
FitsMutant(s) == job[s].qty <= Ordered[JobPO(s)][job[s].product]
Fits(s) ==
  job[s].qty <= Ordered[JobPO(s)][job[s].product] - received[JobPO(s)][job[s].product]

AddLineCheck(s) ==
  /\ pc[s] = "add_check"
  /\ Fits(s)
  /\ pc' = [pc EXCEPT ![s] = "add_insert"]
  /\ UNCHANGED <<rows, locks, job, seen, todo, balance, short>>

\* OverReceiptException.
AddLineOverReceipt(s) ==
  /\ pc[s] = "add_check"
  /\ ~Fits(s)
  /\ EndTransaction(s)
  /\ UNCHANGED rows

\* INSERT and commit.  The foreign key on products waits for a transaction
\* that holds the product row FOR UPDATE.
AddLineInsert(s) ==
  LET g == job[s].grn
      p == job[s].product
  IN /\ pc[s] = "add_insert"
     /\ ProductFree(p)
     /\ NoLineYet(g, p)
     /\ line' = [line EXCEPT ![g][p] = job[s].qty]
     /\ received' = [received EXCEPT ![grn[g].po][p] = @ + job[s].qty]
     /\ EndTransaction(s)
     /\ UNCHANGED <<poStatus, grn, deleted, stock, ledger, backorders>>

\* uq_grn_lines_grn_product: another call inserted the line meanwhile.
AddLineDuplicate(s) ==
  /\ pc[s] = "add_insert"
  /\ ~NoLineYet(job[s].grn, job[s].product)
  /\ EndTransaction(s)
  /\ UNCHANGED rows

-----------------------------------------------------------------------------
(* complete_grn. *)

\* The GRN is read without a lock and is open.
CompleteRead(s, g) ==
  /\ pc[s] = "idle"
  /\ OpenGrn(g)
  /\ pc' = [pc EXCEPT ![s] = "lock_po"]
  /\ job' = [job EXCEPT ![s] = [grn |-> g, product |-> None, qty |-> 0]]
  /\ UNCHANGED <<rows, locks, seen, todo, balance, short>>

\* The PO row is locked and the lines are read; the GRN is not read again.
CompleteLockPO(s) ==
  /\ pc[s] = "lock_po"
  /\ POFree(JobPO(s))
  /\ Received(job[s].grn) # {}
  /\ poLock' = [poLock EXCEPT ![JobPO(s)] = s]
  /\ seen' = [seen EXCEPT ![s] = line[job[s].grn]]
  /\ todo' = [todo EXCEPT ![s] = Received(job[s].grn)]
  /\ pc' = [pc EXCEPT ![s] = "post"]
  /\ UNCHANGED <<rows, productLock, keyShare, job, balance, short>>

\* "Cannot complete GRN with no lines".
CompleteEmpty(s) ==
  /\ pc[s] = "lock_po"
  /\ POFree(JobPO(s))
  /\ Received(job[s].grn) = {}
  /\ EndTransaction(s)
  /\ UNCHANGED rows

\* add_entry for one line: lock the product, write stock and ledger entry.
\* Lines come in creation order, which is any order of their products.
CompletePost(s, p) ==
  /\ pc[s] = "post"
  /\ p \in todo[s]
  /\ ProductFree(p)
  /\ NotReferred(p)
  /\ p \notin deleted
  /\ productLock' = [productLock EXCEPT ![p] = s]
  /\ balance' = [balance EXCEPT ![s][p] = stock[p] + seen[s][p]]
  /\ todo' = [todo EXCEPT ![s] = @ \ {p}]
  /\ UNCHANGED <<rows, poLock, keyShare, pc, job, seen, short>>

\* add_entry finds no product: deleted since the line was added.
CompleteProductGone(s, p) ==
  /\ pc[s] = "post"
  /\ p \in todo[s]
  /\ ProductFree(p)
  /\ NotReferred(p)
  /\ p \in deleted
  /\ EndTransaction(s)
  /\ UNCHANGED rows

\* The GRN's lines are posted; the PO's lines are listed.
CompleteListLines(s) ==
  /\ pc[s] = "post"
  /\ todo[s] = {}
  /\ todo' = [todo EXCEPT ![s] = {p \in Products : Ordered[JobPO(s)][p] > 0}]
  /\ pc' = [pc EXCEPT ![s] = "assess"]
  /\ UNCHANGED <<rows, locks, job, seen, balance, short>>

\* The backorders of the lines taken so far are inserted.
BackordersMade(s) == \A p \in Products : short[s][p] > 0 => p \in keyShare[s]

\* The total of one PO line is read and compared with what was ordered.
CompleteAssess(s, p) ==
  /\ pc[s] = "assess"
  /\ BackordersMade(s)
  /\ p \in todo[s]
  /\ short' = [short EXCEPT ![s][p] = Outstanding(JobPO(s), p)]
  /\ todo' = [todo EXCEPT ![s] = @ \ {p}]
  /\ UNCHANGED <<rows, locks, pc, job, seen, balance>>

\* The backorder of a short line is inserted.  Its foreign key takes the
\* product row FOR KEY SHARE and waits for another completion that holds it
\* FOR UPDATE; the completion's own lock does not stand in its way.
CompleteBackorder(s, p) ==
  /\ pc[s] = "assess"
  /\ short[s][p] > 0
  /\ p \notin keyShare[s]
  /\ productLock[p] \in {None, s}
  /\ keyShare' = [keyShare EXCEPT ![s] = @ \cup {p}]
  /\ UNCHANGED <<rows, poLock, productLock, local>>

\* Stock and ledger entries, backorders or PO status, and the GRN, all at once.
CompleteCommit(s) ==
  LET g  == job[s].grn
      po == JobPO(s)
      posted == {p \in Products : seen[s][p] > 0}
  IN /\ pc[s] = "assess"
     /\ todo[s] = {}
     /\ BackordersMade(s)
     /\ stock' = [p \in Products |-> IF p \in posted THEN balance[s][p] ELSE stock[p]]
     /\ ledger' = [p \in Products |->
                     IF p \in posted
                     THEN Append(ledger[p], [change    |-> seen[s][p],
                                             balance   |-> balance[s][p],
                                             reference |-> g])
                     ELSE ledger[p]]
     /\ backorders' = [backorders EXCEPT ![po] = [p \in Products |->
                         IF short[s][p] > 0
                         THEN Append(@[p], [received    |-> Ordered[po][p] - short[s][p],
                                            outstanding |-> short[s][p],
                                            grn         |-> g])
                         ELSE @[p]]]
     /\ poStatus' = [poStatus EXCEPT ![po] =
                       IF \A p \in Products : short[s][p] = 0 THEN "received" ELSE @]
     /\ grn' = [grn EXCEPT ![g] =
                  [status |-> "completed", po |-> po,
                   reorder |-> \E p \in posted : NeedsReorder(s, p)]]
     /\ EndTransaction(s)
     /\ UNCHANGED <<line, received, deleted>>

-----------------------------------------------------------------------------
\* s may need a row that another session t holds in a mode that excludes it.
WaitsFor(s, t) ==
  /\ s # t
  /\ \/ pc[s] = "lock_po" /\ poLock[JobPO(s)] = t
     \/ pc[s] = "add_insert" /\ productLock[job[s].product] = t
     \/ pc[s] = "post" /\ \E p \in todo[s] : productLock[p] = t \/ p \in keyShare[t]
     \/ pc[s] = "assess" /\ \E p \in Products :
          short[s][p] > 0 /\ p \notin keyShare[s] /\ productLock[p] = t

\* Sessions that wait for one another, in a circle.
Deadlocked(C) == C # {} /\ \A s \in C : \E t \in C : WaitsFor(s, t)

\* PostgreSQL detects the circle and aborts one of its transactions.
DeadlockAbort(s) ==
  /\ \E C \in SUBSET Sessions : s \in C /\ Deadlocked(C)
  /\ EndTransaction(s)
  /\ UNCHANGED rows

\* The call fails, or its process dies, before the commit: all is rolled back.
Abort(s) ==
  /\ pc[s] # "idle"
  /\ EndTransaction(s)
  /\ UNCHANGED rows

Step(s) ==
  \/ AddLineCheck(s) \/ AddLineOverReceipt(s) \/ AddLineInsert(s) \/ AddLineDuplicate(s)
  \/ CompleteLockPO(s) \/ CompleteEmpty(s)
  \/ \E p \in Products : CompletePost(s, p) \/ CompleteProductGone(s, p)
  \/ CompleteListLines(s)
  \/ \E p \in Products : CompleteAssess(s, p) \/ CompleteBackorder(s, p)
  \/ CompleteCommit(s)

Next ==
  \/ \E po \in POs : MarkShipped(po)
  \/ \E p \in Deletable : DeleteProduct(p)
  \/ \E g \in GRNs, po \in POs : CreateGrn(g, po)
  \/ \E s \in Sessions :
       \/ \E g \in GRNs, p \in Products, q \in Quantities : AddLineRead(s, g, p, q)
       \/ \E g \in GRNs : CompleteRead(s, g)
       \/ Step(s)
       \/ DeadlockAbort(s)
       \/ Abort(s)

Spec == Init /\ [][Next]_vars

\* PostgreSQL queues the waiters of a row lock, so a lock that is released
\* again and again is granted in the end (strong fairness); the other steps of
\* a started call stay enabled until they run; the deadlock detector is a timer.
Fairness ==
  /\ \A s \in Sessions : SF_vars(Step(s))
  /\ WF_vars(\E s \in Sessions : DeadlockAbort(s))

FairSpec == Spec /\ Fairness

-----------------------------------------------------------------------------
(* Safety, whatever calls overlap. *)

SL == INSTANCE StockLedger WITH Changes <- Quantities \cup {0}, References <- GRNs

\* add_entry under the product lock: however receipts overlap, every commit is
\* one append-only ledger posting that carries the stock with it.
ImplementsStockLedger == SL!Spec

\* The stock of a product is the running balance of its ledger: no receipt of
\* another session is lost between reading current_stock and writing it.
StockIsLedgerBalance == SL!Balanced

\* Stock and GRNs tell the same story: an entry belongs to a completed GRN
\* whose line for the product has that quantity, and a completed GRN has
\* entries.  A rolled-back completion leaves neither.
LedgerMatchesGrns ==
  /\ \A p \in Products : \A i \in 1 .. Len(ledger[p]) :
       LET e == ledger[p][i]
       IN grn[e.reference].status = "completed" /\ line[e.reference][p] = e.change
  /\ \A g \in GRNs : grn[g].status = "completed" =>
       \E p \in Products : \E i \in 1 .. Len(ledger[p]) : ledger[p][i].reference = g

\* A PO is marked received only when GRN lines cover every line of it, although
\* complete_grn takes its totals before it commits and add_line takes no lock.
ReceivedMeansCovered ==
  \A po \in POs : poStatus[po] = "received" =>
    \A p \in Products : received[po][p] >= Ordered[po][p]

\* The PO row lock orders the completions of one PO: of two backorders for the
\* same PO line the later one never asks for more, and each asks for something.
BackordersShrink ==
  \A po \in POs, p \in Products : LET b == backorders[po][p] IN
    \A i \in 1 .. Len(b) :
      /\ 0 < b[i].outstanding /\ b[i].outstanding + b[i].received = Ordered[po][p]
      /\ \A j \in 1 .. i : b[i].outstanding <= b[j].outstanding

\* complete_grn writes the PO status without validate_transition; the status
\* still moves only along LEGAL_TRANSITIONS.
LifecycleLegal ==
  [][\A po \in POs : poStatus'[po] # poStatus[po] =>
       LegalTransition(poStatus[po], poStatus'[po])]_vars

\* The auto-reorder flag a completion leaves is the answer for the stock the
\* completion itself produced, not for a stock another receipt replaced.
ReorderFlagCurrent ==
  [][\A g \in GRNs : LET posted == {p \in Products : \E i \in 1 .. Len(ledger'[p]) :
                                      i > Len(ledger[p]) /\ ledger'[p][i].reference = g}
     IN posted # {} =>
          (grn'[g].reorder <=> \E p \in posted : stock'[p] <= Threshold(p))]_vars

\* Completions of one PO queue on its row, so a deadlock over product rows,
\* whether they are wanted for a posting or for a backorder's foreign key,
\* always involves different POs.  (Of two receipt calls: order calls, which may
\* wait for products too, are not in this module.)
DeadlockCrossesPOs ==
  \A s, t \in Sessions :
    WaitsFor(s, t) /\ WaitsFor(t, s) => JobPO(s) # JobPO(t)

\* Every started call ends: no lock is left behind and no circle of waiting
\* completions lasts.
CallsEnd == \A s \in Sessions : pc[s] # "idle" ~> pc[s] = "idle"

-----------------------------------------------------------------------------
(* The inductive invariant behind the safety properties: what a session in the *)
(* middle of a call may rely on.                                               *)

\* A GRN belongs to a PO that was shipped when it was created.
GrnsOfShippedPOs ==
  \A g \in GRNs :
    /\ grn[g].status # "none" => /\ grn[g].po \in POs
                                 /\ poStatus[grn[g].po] \in {"shipped", "received"}
    /\ \A p \in Products : line[g][p] \in Quantities \cup {0}

\* A started call is about a GRN that exists; add_line also about a product.
JobNamesRows(s) ==
  /\ pc[s] # "idle" => job[s].grn \in GRNs /\ grn[job[s].grn].status # "none"
  /\ pc[s] \in {"add_check", "add_insert"} =>
       job[s].product \in Products /\ job[s].qty \in Quantities

\* Only a completion past its PO lock holds locks, on its own PO's row; its
\* backorders come after all its postings.
LocksOwned(s) ==
  /\ \A po \in POs : poLock[po] = s => pc[s] \in {"post", "assess"} /\ JobPO(s) = po
  /\ \A p \in Products : productLock[p] = s => pc[s] \in {"post", "assess"}
  /\ pc[s] # "assess" => keyShare[s] = {} /\ short[s] = Nothing

\* What a completion read and wrote under its locks is still right.
CurrentFor(s) ==
  /\ poLock[JobPO(s)] = s
  /\ \E p \in Products : seen[s][p] > 0
  /\ \A p \in Products :
       /\ seen[s][p] \in Quantities \cup {0}
       /\ pc[s] = "post" /\ p \in todo[s] => seen[s][p] > 0
       /\ seen[s][p] > 0 /\ (pc[s] = "post" => p \notin todo[s]) =>
            productLock[p] = s /\ balance[s][p] = stock[p] + seen[s][p]
       /\ pc[s] = "assess" /\ p \notin todo[s] => short[s][p] >= Outstanding(JobPO(s), p)

SessionOK(s) ==
  /\ JobNamesRows(s)
  /\ LocksOwned(s)
  /\ pc[s] \in {"post", "assess"} => CurrentFor(s)

StockNonNegative == \A p \in Products : stock[p] >= 0

IInv ==
  /\ TypeOK
  /\ GrnsOfShippedPOs
  /\ \A s \in Sessions : SessionOK(s)
  /\ StockNonNegative
  /\ ReceivedMeansCovered

-----------------------------------------------------------------------------
(* What the repository's specification promises of receipts.  These hold while *)
(* calls do not overlap; two overlapping calls violate each of them.           *)

\* "Each GRN line receipt creates exactly one StockLedger entry."
OneEntryPerLine ==
  \A g \in GRNs, p \in Products :
    grn[g].status = "completed" /\ line[g][p] > 0 =>
      Cardinality({i \in 1 .. Len(ledger[p]) : ledger[p][i].reference = g}) = 1

\* No completion posts a GRN line a second time.
NoSecondEntry ==
  \A g \in GRNs, p \in Products :
    Cardinality({i \in 1 .. Len(ledger[p]) : ledger[p][i].reference = g}) <= 1

\* "Quantity_received on a GRN line cannot exceed the remaining quantity on
\* the PO line": the lines of a PO never exceed its order.
NoOverReceipt ==
  \A po \in POs, p \in Products : received[po][p] <= Ordered[po][p]

\* "A completed GRN cannot have lines added to it."
CompletedGrnFrozen ==
  [][\A g \in GRNs : grn[g].status = "completed" => line'[g] = line[g]]_vars

\* What the ledger says was received of a PO line.
InStock(po, p) ==
  SumFunctionOnSet([i \in 1 .. Len(ledger[p]) |-> ledger[p][i].change],
                   {i \in 1 .. Len(ledger[p]) : grn[ledger[p][i].reference].po = po})

\* Once a received PO has no GRN left open, all that was ordered is in stock.
SettledMeansInStock ==
  \A po \in POs :
    poStatus[po] = "received" /\ (\A g \in GRNs : grn[g].po = po => grn[g].status = "completed") =>
      \A p \in Products : Ordered[po][p] <= InStock(po, p)

=============================================================================
