----------------------------- MODULE PONumbers -----------------------------
(***************************************************************************)
(* How a purchase order gets its number: po_number_service.py and the      *)
(* retry loop of create_purchase_order around it.                          *)
(*                                                                         *)
(* A creation selects the largest number of the year FOR UPDATE, adds one  *)
(* and inserts.  PostgreSQL picks the row from the statement's snapshot    *)
(* and then waits for its lock: a creation that waited still gets the row  *)
(* it picked, which is no longer the largest.  The unique constraint then  *)
(* refuses the insert, the savepoint is rolled back, which also gives up   *)
(* the row lock, and the creation tries again, Attempts times in all.      *)
(*                                                                         *)
(* Numbers are those of one year: another year is another, separate,       *)
(* series.  The column is text and numbers are padded to six digits, so    *)
(* that the largest is found by string order.                              *)
(***************************************************************************)
EXTENDS Integers, FiniteSets

CONSTANTS
  Sessions,    \* concurrent creations (one database session each)
  Attempts,    \* 2 in create_purchase_order
  Last,        \* the largest number of six digits, 999999 in the code
  None

ASSUME NoneAssumption == None \notin Sessions
ASSUME NumbersAssumption == Attempts \in Nat \ {0} /\ Last \in Nat \ {0}

VARIABLES
  numbers,   \* po_number of the committed orders
  rowLock,   \* session holding the FOR UPDATE lock of an order's row
  pending,   \* number a session has inserted and not committed, 0 = none
  pc,
  attempt,   \* which try of the loop a session is in
  picked,    \* row the SELECT picked from its snapshot, 0 = no row
  next,      \* number the session is about to insert
  before     \* history: the numbers there when the call started

vars == <<numbers, rowLock, pending, pc, attempt, picked, next, before>>

-----------------------------------------------------------------------------
PC == {"idle", "select", "lock", "insert", "commit"}
Number == 1 .. Last + 1

TypeOK ==
  /\ numbers \subseteq Number
  /\ rowLock \in [Number -> Sessions \cup {None}]
  /\ pending \in [Sessions -> Number \cup {0}]
  /\ pc \in [Sessions -> PC]
  /\ attempt \in [Sessions -> 0 .. Attempts]
  /\ picked \in [Sessions -> Number \cup {0}]
  /\ next \in [Sessions -> Number \cup {0}]
  /\ before \in [Sessions -> SUBSET Number]

\* ORDER BY po_number DESC LIMIT 1.  Up to Last all numbers have the same width
\* and sort as numbers; Last, all nines, sorts after every wider one.
TopMutant(n) == n \in numbers
NumericTop(n) == n \in numbers /\ \A m \in numbers : m <= n
Top(n) ==
  /\ n \in numbers
  /\ IF Last \in numbers THEN n = Last ELSE \A m \in numbers : m <= n

\* The session's row lock, its uncommitted insert and its local state go.
EndTransactionMutant(s) ==
  /\ pending' = [pending EXCEPT ![s] = 0]
  /\ pc' = [pc EXCEPT ![s] = "idle"]
  /\ attempt' = [attempt EXCEPT ![s] = 0]
  /\ picked' = [picked EXCEPT ![s] = 0]
  /\ next' = [next EXCEPT ![s] = 0]
  /\ before' = [before EXCEPT ![s] = {}]
  /\ UNCHANGED rowLock
EndTransaction(s) ==
  /\ rowLock' = [n \in Number |-> IF rowLock[n] = s THEN None ELSE rowLock[n]]
  /\ pending' = [pending EXCEPT ![s] = 0]
  /\ pc' = [pc EXCEPT ![s] = "idle"]
  /\ attempt' = [attempt EXCEPT ![s] = 0]
  /\ picked' = [picked EXCEPT ![s] = 0]
  /\ next' = [next EXCEPT ![s] = 0]
  /\ before' = [before EXCEPT ![s] = {}]

\* The unique index makes an insert wait for an uncommitted equal one.
IndexFree(s) == \A t \in Sessions \ {s} : pending[t] # next[s]

-----------------------------------------------------------------------------
Init ==
  /\ numbers = {}
  /\ rowLock = [n \in Number |-> None]
  /\ pending = [s \in Sessions |-> 0]
  /\ pc = [s \in Sessions |-> "idle"]
  /\ attempt = [s \in Sessions |-> 0]
  /\ picked = [s \in Sessions |-> 0]
  /\ next = [s \in Sessions |-> 0]
  /\ before = [s \in Sessions |-> {}]

\* create_purchase_order enters its loop.
Start(s) ==
  /\ pc[s] = "idle"
  /\ pc' = [pc EXCEPT ![s] = "select"]
  /\ attempt' = [attempt EXCEPT ![s] = 1]
  /\ before' = [before EXCEPT ![s] = numbers]
  /\ UNCHANGED <<numbers, rowLock, pending, picked, next>>

\* The SELECT picks the row from its snapshot ...
SelectTop(s, n) ==
  /\ pc[s] = "select"
  /\ Top(n)
  /\ picked' = [picked EXCEPT ![s] = n]
  /\ pc' = [pc EXCEPT ![s] = "lock"]
  /\ UNCHANGED <<numbers, rowLock, pending, attempt, next, before>>

\* ... and the first order of a year finds none.
SelectNone(s) ==
  /\ pc[s] = "select"
  /\ numbers = {}
  /\ next' = [next EXCEPT ![s] = 1]
  /\ pc' = [pc EXCEPT ![s] = "insert"]
  /\ UNCHANGED <<numbers, rowLock, pending, attempt, picked, before>>

\* The row's lock is granted; nobody changes a number, so the row is as picked.
LockTopMutant(s) ==
  /\ pc[s] = "lock"
  /\ rowLock[picked[s]] = None
  /\ rowLock' = [rowLock EXCEPT ![picked[s]] = s]
  /\ next' = [next EXCEPT ![s] = picked[s] + attempt[s]]
  /\ pc' = [pc EXCEPT ![s] = "insert"]
  /\ UNCHANGED <<numbers, pending, attempt, picked, before>>
LockTop(s) ==
  /\ pc[s] = "lock"
  /\ rowLock[picked[s]] = None
  /\ rowLock' = [rowLock EXCEPT ![picked[s]] = s]
  /\ next' = [next EXCEPT ![s] = picked[s] + 1]
  /\ pc' = [pc EXCEPT ![s] = "insert"]
  /\ UNCHANGED <<numbers, pending, attempt, picked, before>>

Insert(s) ==
  /\ pc[s] = "insert"
  /\ IndexFree(s)
  /\ next[s] \notin numbers
  /\ pending' = [pending EXCEPT ![s] = next[s]]
  /\ pc' = [pc EXCEPT ![s] = "commit"]
  /\ UNCHANGED <<numbers, rowLock, attempt, picked, next, before>>

\* IntegrityError on po_number: back to the savepoint, and once more.
Retry(s) ==
  /\ pc[s] = "insert"
  /\ IndexFree(s)
  /\ next[s] \in numbers
  /\ attempt[s] < Attempts
  /\ rowLock' = [n \in Number |-> IF rowLock[n] = s THEN None ELSE rowLock[n]]
  /\ attempt' = [attempt EXCEPT ![s] = @ + 1]
  /\ picked' = [picked EXCEPT ![s] = 0]
  /\ next' = [next EXCEPT ![s] = 0]
  /\ pc' = [pc EXCEPT ![s] = "select"]
  /\ UNCHANGED <<numbers, pending, before>>

\* "Failed to allocate unique PO number".
Conflict(s) ==
  /\ pc[s] = "insert"
  /\ IndexFree(s)
  /\ next[s] \in numbers
  /\ attempt[s] = Attempts
  /\ EndTransaction(s)
  /\ UNCHANGED numbers

Commit(s) ==
  /\ pc[s] = "commit"
  /\ numbers' = numbers \cup {pending[s]}
  /\ EndTransaction(s)

\* A product of the order is gone, or the process dies: all is rolled back.
Abort(s) ==
  /\ pc[s] # "idle"
  /\ EndTransaction(s)
  /\ UNCHANGED numbers

Step(s) ==
  \/ \E n \in Number : SelectTop(s, n)
  \/ SelectNone(s) \/ LockTop(s) \/ Insert(s) \/ Retry(s) \/ Conflict(s) \/ Commit(s)

Next == \E s \in Sessions : Start(s) \/ Step(s) \/ Abort(s)

Spec == Init /\ [][Next]_vars

\* Waiters of a lock and of an index entry queue: strong fairness.
Fairness == \A s \in Sessions : SF_vars(Step(s))

-----------------------------------------------------------------------------
\* "MAX+1 with row lock to prevent gaps": the orders of a year are numbered
\* 1, 2, 3, ... whichever creations overlap, wait, retry or roll back.
Gapless == \E k \in 0 .. Last + 1 : numbers = 1 .. k

\* A creation finds its number taken for the n-th time only after n orders were
\* committed since it started: with Attempts = 2 it is told that no number could
\* be allocated only after two orders overtook it, of two other sessions or of
\* the same one twice.  (Numbers of more than six digits excluded: see SeriesEnds.)
ConflictNeedsOvertaking ==
  \A s \in Sessions :
    pc[s] = "insert" /\ next[s] \in numbers /\ next[s] <= Last =>
      Cardinality(numbers \ before[s]) >= attempt[s]

\* String order ends a year's series one order after the last number of six
\* digits: that number stays the largest, and every later creation of the year
\* asks for a number that is taken.
SeriesEnds == [][Last + 1 \in numbers => numbers' = numbers]_vars

\* Every creation ends: no row lock is left behind and no creation waits for
\* ever for a row or an index entry.
CallsEnd == \A s \in Sessions : pc[s] # "idle" ~> pc[s] = "idle"

\* The inductive invariant: with k orders committed now and b when the call
\* started, a session in its a-th attempt asks for no less than b + a, and
\* for k + 1 if it has inserted that number.
AtLeast(s, b, n) == n >= b + attempt[s] \/ n >= Last + 1
InStep(s, k, b) ==
  /\ before[s] = 1 .. b
  /\ pc[s] \in {"insert", "commit"} => next[s] \in 1 .. k + 1 /\ AtLeast(s, b, next[s])
  /\ pc[s] = "select" => AtLeast(s, b, k + 1)
  /\ pc[s] = "lock" => picked[s] \in 1 .. k /\ picked[s] <= Last
                       /\ AtLeast(s, b, picked[s] + 1)
  /\ pc[s] = "commit" => pending[s] = next[s] /\ next[s] = k + 1 /\ k <= Last
  /\ pc[s] # "commit" => pending[s] = 0
  /\ pc[s] = "idle" => b = 0
SessionOK(s, k) == \E b \in 0 .. k : InStep(s, k, b)

IInv ==
  /\ TypeOK
  /\ \E k \in 0 .. Last + 1 :
       /\ numbers = 1 .. k
       /\ \A s \in Sessions : SessionOK(s, k)
  \* The unique index: one uncommitted insert at a time.
  /\ \A s, t \in Sessions : pc[s] = "commit" /\ pc[t] = "commit" => s = t

=============================================================================
