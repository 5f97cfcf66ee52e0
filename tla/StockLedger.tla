---------------------------- MODULE StockLedger -----------------------------
(***************************************************************************)
(* What the stock ledger promises: a product's current_stock changes only  *)
(* together with an appended ledger entry that records the change and the  *)
(* balance after it, the stock is never negative, and entries are never    *)
(* changed or removed.  One step is one committed transaction: it may post *)
(* one entry for each of several products, all with the same reference.    *)
(* The entries of a product are kept in posting order; the order of        *)
(* entries of different products carries no meaning in the code (ids are   *)
(* random UUIDs).                                                          *)
(***************************************************************************)
EXTENDS Integers, Sequences

CONSTANTS
  Products,     \* product ids
  Changes,      \* the integers a transaction may post as changes; 0 is "no entry"
  References    \* reference_id values (the GRN a receipt belongs to)

VARIABLES
  stock,        \* products.current_stock
  ledger        \* stock_ledger rows of each product, oldest first

Entry == [change : Int, balance : Int, reference : References]

TypeOK ==
  /\ stock  \in [Products -> Int]
  /\ ledger \in [Products -> Seq(Entry)]

Init ==
  /\ stock  = [p \in Products |-> 0]
  /\ ledger = [p \in Products |-> <<>>]

\* One transaction of add_entry calls: change c[p] for each product p.
Post(c, r) ==
  /\ \E p \in Products : c[p] # 0
  /\ \A p \in Products : stock[p] + c[p] >= 0
  /\ stock'  = [p \in Products |-> stock[p] + c[p]]
  /\ ledger' = [p \in Products |->
                  IF c[p] = 0 THEN ledger[p]
                  ELSE Append(ledger[p], [change    |-> c[p],
                                          balance   |-> stock[p] + c[p],
                                          reference |-> r])]

Next == \E c \in [Products -> Changes], r \in References : Post(c, r)

Spec == Init /\ [][Next]_<<stock, ledger>>

-----------------------------------------------------------------------------
\* The balance on record before entry i of a product's entries.
BalanceBefore(entries, i) == IF i = 1 THEN 0 ELSE entries[i - 1].balance

\* Every balance is the previous balance plus the entry's change.
Chained(entries) ==
  \A i \in 1 .. Len(entries) :
    entries[i].balance = BalanceBefore(entries, i) + entries[i].change

\* current_stock is the running balance of the ledger.
Balanced ==
  \A p \in Products :
    /\ Chained(ledger[p])
    /\ stock[p] = BalanceBefore(ledger[p], Len(ledger[p]) + 1)

\* No posted balance is negative (add_entry's InsufficientStock check).
NeverNegative ==
  \A p \in Products :
    /\ stock[p] >= 0
    /\ \A i \in 1 .. Len(ledger[p]) : ledger[p][i].balance >= 0

=============================================================================
