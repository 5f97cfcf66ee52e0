---------------------------- MODULE AutoReorder ----------------------------
(***************************************************************************)
(* The two-hourly reorder: temporal/workflows/auto_reorder.py, its         *)
(* activities in temporal/activities/reorder_activities.py, the numbers of *)
(* generate_auto_po_number (services/po_number_service.py) and the emails  *)
(* of temporal/activities/email_activities.py.                             *)
(*                                                                         *)
(* The workflow lists the eligible products and works on all of them at    *)
(* once: create an order, then tell the managers.  A creation is one       *)
(* transaction per attempt.  It looks for an open automatic order and      *)
(* picks a number, later inserts; the unique index on po_number decides    *)
(* between two that picked the same.  What activities, attempts and        *)
(* asTested are is told in TierRecalculation; here it is the listing that  *)
(* fails in the real world, for want of products.preferred_supplier_id.    *)
(***************************************************************************)
EXTENDS Integers, FiniteSets, FiniteSetsExt

CONSTANTS
  Products, Managers,
  Attempts,      \* RetryPolicy.maximum_attempts
  LastNumber,    \* bound: the last number of the series
  Strays,        \* bound: creations given up by their runs yet alive at once
  None

ASSUME NumbersAssumption == Attempts \in Nat \ {0} /\ LastNumber \in Nat
ASSUME NoneAssumption ==
  /\ None \notin [product : Products, submitted : BOOLEAN]
  /\ None \notin [product : Products, number : Nat]

VARIABLES
  asTested,
  usable,        \* products not deleted whose preferred supplier is active,
                 \* while there is an active administrator to own the order
  order,         \* the automatic order with a number, or None
  running,       \* is a run of the workflow under way?
  pc,            \* where the run is with a product
  number,        \* the number picked by an attempt that has yet to insert
  failed,        \* failed attempts at the creation
  late,          \* an attempt given up, with the number it picked or 0; or None
  mailing,       \* the orders whose emails an activity is sending
  untold,        \* the managers the present attempt at that has yet to write to
  cancelled,     \* attempts at that which the shutdown of a worker cut short
  told,          \* how often a manager was written to about an order
  bounced,       \* history: the orders with an attempt cut short while it logged
                 \* an email that had failed
  due            \* history: the orders there were when the creation began, and one
                 \* more for every attempt at it that found its number taken

work    == <<pc, number, failed, late>>
mail    == <<mailing, untold, cancelled, told, bounced>>
vars == <<asTested, usable, order, running, work, mail, due>>

-----------------------------------------------------------------------------
Numbers == 1 .. LastNumber
Order   == [product : Products, submitted : BOOLEAN]
Attempt == [product : Products, number : Numbers \cup {0}]
PC      == {"idle", "create", "insert", "mail"}

TypeOK ==
  /\ asTested \in BOOLEAN /\ running \in BOOLEAN
  /\ usable \subseteq Products
  /\ order \in [Numbers -> Order \cup {None}]
  /\ pc \in [Products -> PC]
  /\ number \in [Products -> Numbers \cup {0}]
  /\ failed \in [Products -> Nat]
  /\ late \in [Strays -> Attempt \cup {None}]
  /\ mailing \subseteq Numbers /\ bounced \subseteq Numbers
  /\ untold \in [Numbers -> SUBSET Managers]
  /\ cancelled \in [Numbers -> Nat]
  /\ told \in [Numbers -> [Managers -> Nat]]
  /\ due \in [Products -> Nat]

Init ==
  /\ asTested \in BOOLEAN
  /\ usable = Products
  /\ order = [n \in Numbers |-> None]
  /\ running = FALSE
  /\ pc = [p \in Products |-> "idle"]
  /\ number = [p \in Products |-> 0]
  /\ failed = [p \in Products |-> 0]
  /\ late = [a \in Strays |-> None]
  /\ mailing = {} /\ bounced = {}
  /\ untold = [n \in Numbers |-> {}]
  /\ cancelled = [n \in Numbers |-> 0]
  /\ told = [n \in Numbers |-> [m \in Managers |-> 0]]
  /\ due = [p \in Products |-> 0]

-----------------------------------------------------------------------------
(* Users meanwhile. *)

\* A product is deleted, its supplier deactivated, activated or replaced, or the
\* last administrator goes or comes back.
ChangeUsable(p) ==
  /\ usable' = IF p \in usable THEN usable \ {p} ELSE usable \cup {p}
  /\ UNCHANGED <<asTested, order, running, work, mail, due>>

\* An automatic order is acknowledged or cancelled: it is no longer submitted.
MoveOn(n) ==
  /\ order[n] # None /\ order[n].submitted
  /\ order' = [order EXCEPT ![n].submitted = FALSE]
  /\ UNCHANGED <<asTested, usable, running, work, mail, due>>

-----------------------------------------------------------------------------
Ordered(p) == \E n \in Numbers : order[n] = [product |-> p, submitted |-> TRUE]
Placed == {n \in Numbers : order[n] # None}

\* Products the listing returns if reorder is enabled for them and their stock
\* is at the threshold or below, which it may be at any time.
MayBeEligible == {p \in usable : ~Ordered(p)}

\* The schedule starts a run unless the last is under way; attempts and emails
\* that one gave up may still be.
Start ==
  /\ ~running
  /\ running' = TRUE
  /\ UNCHANGED <<asTested, usable, order, work, mail, due>>

\* get_reorder_eligible_products.
ListEligible(eligible) ==
  LET reset(f, value) == [p \in Products |-> IF p \in eligible THEN value ELSE f[p]]
  IN /\ running /\ asTested
     /\ \A p \in Products : pc[p] = "idle"
     /\ eligible # {} /\ eligible \subseteq MayBeEligible
     /\ pc' = reset(pc, "create")
     /\ due' = reset(due, Cardinality(Placed))
     /\ UNCHANGED <<asTested, usable, order, running, number, failed, late, mail>>

\* Every product is done, or there was none, or the listing failed for good.
RunEnds ==
  /\ running
  /\ \A p \in Products : pc[p] = "idle"
  /\ running' = FALSE
  /\ UNCHANGED <<asTested, usable, order, work, mail, due>>

-----------------------------------------------------------------------------
(* create_auto_reorder_po. *)

Finish(p) ==
  /\ pc' = [pc EXCEPT ![p] = "idle"]
  /\ number' = [number EXCEPT ![p] = 0]
  /\ failed' = [failed EXCEPT ![p] = 0]

\* A failed attempt is repeated, at most Attempts times in all.
Repeat(p) ==
  \/ /\ failed[p] + 1 < Attempts
     /\ pc' = [pc EXCEPT ![p] = "create"]
     /\ number' = [number EXCEPT ![p] = 0]
     /\ failed' = [failed EXCEPT ![p] = @ + 1]
  \/ failed[p] + 1 >= Attempts /\ Finish(p)

\* The largest number of the series: generate_auto_po_number adds one to it.
TopMutant == Max({n \in Placed : order[n].submitted} \cup {0})
Top == Max(Placed \cup {0})

\* The product or its supplier is gone: skipped.
SkipUnusable(p) ==
  /\ pc[p] = "create"
  /\ p \notin usable
  /\ Finish(p)
  /\ UNCHANGED <<asTested, usable, order, running, late, mail, due>>

\* There is an open automatic order: skipped, and nobody is told.
SkipOrdered(p) ==
  /\ pc[p] = "create"
  /\ p \in usable
  /\ Ordered(p)
  /\ Finish(p)
  /\ UNCHANGED <<asTested, usable, order, running, late, mail, due>>

PickNumberMutant(p) ==
  /\ pc[p] = "create"
  /\ p \in usable
  /\ Top < LastNumber
  /\ number' = [number EXCEPT ![p] = Top + 1]
  /\ pc' = [pc EXCEPT ![p] = "insert"]
  /\ UNCHANGED <<asTested, usable, order, running, failed, late, mail, due>>
PickNumber(p) ==
  /\ pc[p] = "create"
  /\ p \in usable
  /\ ~Ordered(p)
  /\ Top < LastNumber
  /\ number' = [number EXCEPT ![p] = Top + 1]
  /\ pc' = [pc EXCEPT ![p] = "insert"]
  /\ UNCHANGED <<asTested, usable, order, running, failed, late, mail, due>>

\* The order is inserted, as submitted, and committed.
Place(p, n) ==
  /\ order[n] = None
  /\ order' = [order EXCEPT ![n] = [product |-> p, submitted |-> TRUE]]

\* The workflow learns of the order and has the managers told; the call raises
\* in the real world, which does not get here.
Created(p) ==
  /\ pc[p] = "insert"
  /\ Place(p, number[p])
  /\ pc' = [pc EXCEPT ![p] = "mail"]
  /\ failed' = [failed EXCEPT ![p] = 0]
  /\ mailing' = mailing \cup {number[p]}
  /\ untold' = [untold EXCEPT ![number[p]] = Managers]
  /\ UNCHANGED <<asTested, usable, running, number, late, cancelled, told, bounced, due>>

\* IntegrityError: the number was inserted since.
NumberTaken(p) ==
  /\ pc[p] = "insert"
  /\ order[number[p]] # None
  /\ due' = [due EXCEPT ![p] = @ + 1]
  /\ Repeat(p)
  /\ UNCHANGED <<asTested, usable, order, running, late, mail>>

\* Any other error rolls the attempt back.
AttemptFails(p) ==
  /\ pc[p] \in {"create", "insert"}
  /\ Repeat(p)
  /\ UNCHANGED <<asTested, usable, order, running, late, mail, due>>

\* The attempt commits, but an error or a shutdown hides that from Temporal.
CommitLost(p) ==
  /\ pc[p] = "insert"
  /\ Place(p, number[p])
  /\ Repeat(p)
  /\ UNCHANGED <<asTested, usable, running, late, mail, due>>

\* Five minutes are over.  An attempt on its way is not stopped; it is over only
\* if its process is.
TimesOut(p) ==
  /\ pc[p] \in {"create", "insert"}
  /\ Finish(p)
  /\ \/ UNCHANGED late
     \/ \E a \in Strays :
          /\ late[a] = None
          /\ late' = [late EXCEPT ![a] = [product |-> p, number |-> number[p]]]
  /\ UNCHANGED <<asTested, usable, order, running, mail, due>>

\* An attempt given up finds no open order and picks a number.
LatePick(a) ==
  /\ late[a] # None /\ late[a].number = 0
  /\ late[a].product \in usable
  /\ ~Ordered(late[a].product)
  /\ Top < LastNumber
  /\ late' = [late EXCEPT ![a].number = Top + 1]
  /\ UNCHANGED <<asTested, usable, order, running, pc, number, failed, mail, due>>

\* It inserts its order, of which no workflow learns.
LateInsert(a) ==
  /\ late[a] # None /\ late[a].number # 0
  /\ Place(late[a].product, late[a].number)
  /\ late' = [late EXCEPT ![a] = None]
  /\ UNCHANGED <<asTested, usable, running, pc, number, failed, mail, due>>

\* It skips the product, finds its number taken or fails.
LateEnds(a) ==
  /\ late[a] # None
  /\ late' = [late EXCEPT ![a] = None]
  /\ UNCHANGED <<asTested, usable, order, running, pc, number, failed, mail, due>>

-----------------------------------------------------------------------------
(* send_reorder_email reads the order and the managers, then calls send_email *)
(* for one after another.  An email that fails is logged, and if that fails   *)
(* too, forgotten; no error leaves the activity.  Sending does not yield to   *)
(* the event loop, but reading and logging do, and there the shutdown of a    *)
(* worker cancels the attempt: "except Exception" does not catch that.        *)

\* The email is sent, or fails and is logged.
Tell(n, m) ==
  /\ n \in mailing /\ m \in untold[n]
  /\ untold' = [untold EXCEPT ![n] = @ \ {m}]
  /\ told' = [told EXCEPT ![n][m] = @ + 1]
  /\ UNCHANGED <<asTested, usable, order, running, work, mailing, cancelled, bounced, due>>

\* A cancelled attempt is repeated, from the first manager on, at most Attempts
\* times in all and while the workflow waits for it.
TellAgain(n) ==
  LET again == cancelled[n] + 1 < Attempts /\ \E p \in Products : pc[p] = "mail" /\ number[p] = n
  IN /\ cancelled' = [cancelled EXCEPT ![n] = IF again THEN @ + 1 ELSE 0]
     /\ mailing' = IF again THEN mailing ELSE mailing \ {n}
     /\ untold' = [untold EXCEPT ![n] = IF again THEN Managers ELSE {}]

\* The attempt is cancelled while it reads.
ReadCancelledMutant(n) ==
  /\ n \in mailing
  /\ TellAgain(n)
  /\ UNCHANGED <<asTested, usable, order, running, work, told, bounced, due>>
ReadCancelled(n) ==
  /\ n \in mailing /\ untold[n] = Managers
  /\ TellAgain(n)
  /\ UNCHANGED <<asTested, usable, order, running, work, told, bounced, due>>

\* The email fails, and the attempt is cancelled while it logs that.
LogCancelled(n, m) ==
  /\ n \in mailing /\ m \in untold[n]
  /\ told' = [told EXCEPT ![n][m] = @ + 1]
  /\ bounced' = bounced \cup {n}
  /\ TellAgain(n)
  /\ UNCHANGED <<asTested, usable, order, running, work, due>>

\* All are written to; or the order, its product or the managers could not be
\* read; or the process died, which Temporal does not learn before the timeout.
MailEnds(n) ==
  /\ n \in mailing
  /\ mailing' = mailing \ {n}
  /\ untold' = [untold EXCEPT ![n] = {}]
  /\ cancelled' = [cancelled EXCEPT ![n] = 0]
  /\ UNCHANGED <<asTested, usable, order, running, work, told, bounced, due>>

\* The workflow goes on after the activity ended, or after five minutes.
MailDone(p) ==
  /\ pc[p] = "mail"
  /\ Finish(p)
  /\ UNCHANGED <<asTested, usable, order, running, late, mail, due>>

-----------------------------------------------------------------------------
Process(p) ==
  \/ SkipUnusable(p) \/ SkipOrdered(p) \/ PickNumber(p)
  \/ Created(p) \/ NumberTaken(p) \/ AttemptFails(p) \/ CommitLost(p) \/ TimesOut(p)
  \/ MailDone(p)

Step == (\E ps \in SUBSET Products : ListEligible(ps)) \/ RunEnds \/ \E p \in Products : Process(p)

Mail(n) ==
  \/ ReadCancelled(n) \/ MailEnds(n)
  \/ \E m \in Managers : Tell(n, m) \/ LogCancelled(n, m)

Next ==
  \/ Start \/ Step
  \/ \E n \in Numbers : MoveOn(n) \/ Mail(n)
  \/ \E p \in Products : ChangeUsable(p)
  \/ \E a \in Strays : LatePick(a) \/ LateInsert(a) \/ LateEnds(a)

Spec == Init /\ [][Next]_vars

-----------------------------------------------------------------------------
\* "A submitted auto-reorder PO exists: skipped": a product never has two open
\* automatic orders, whatever attempts were repeated after they committed.  In
\* the real world it never has one.
OneSubmitted ==
  \A a, b \in Numbers :
    /\ order[a] # None => asTested
    /\ order[a] # None /\ order[a].submitted /\ order[a] = order[b] => a = b

\* A creation finds its numbers taken no oftener than orders were placed since
\* it began, one given up for the same product included: as many products as
\* attempts never starve one another.
TakenNeedsOthers == \A p \in Products : due[p] <= Cardinality(Placed)

\* However a creation was repeated and its emails cut short, nobody is written to
\* oftener than there are attempts, and again only when an email about the order
\* had failed and a shutdown came while that was logged.
ToldAgain ==
  \A n \in Numbers, m \in Managers :
    told[n][m] <= Attempts /\ (told[n][m] > 1 => n \in bounced)

=============================================================================
