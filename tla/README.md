# StockBridge in TLA+

A verification development for the StockBridge warehouse and purchase order
system: TLA+ modules translated from the source, TLC configurations that check
them on small instances, and TLAPS proofs of the main theorems for every value
of the constants. Paths below are relative to the root of the repository.

## The system and its parts

A FastAPI backend (`backend/app`) over PostgreSQL and Redis, a Temporal worker
for periodic work, and a React client (`client/src`). Routers call services,
services call repositories, repositories run SQL in the session of the call.

| Component | State | Operations | Modelled in |
|---|---|---|---|
| Order state machine (`services/po_state_machine.py`) | none | `validate_transition` | `POStateMachine` |
| Goods receipt (`services/grn_service.py`) | `grns`, `grn_lines`, `backorders`, order status | `create_grn`, `add_line`, `complete_grn` | `GoodsReceipt` |
| Stock ledger (`services/stock_ledger_service.py`) | `stock_ledger`, `products.current_stock` | `add_entry`, `get_page` | `StockLedger` (abstract), `GoodsReceipt`, `LedgerPages` |
| Purchase orders (`services/purchase_order_service.py`) | `purchase_orders`, `po_lines` | create, update, submit, acknowledge, mark shipped, cancel, delete | `OrderBook` (abstract), `PurchaseOrders` |
| Order numbers (`services/po_number_service.py`) | `purchase_orders.po_number` | next number of the year, retry when taken; the automatic series | `PONumbers`, `AutoReorder` |
| Session of a call (`db/session.py`, `core/dependencies.py`) | transaction, connection of the pool | begin, savepoint, commit, roll back, close | `RequestSession` |
| Suppliers (`services/supplier_service.py`) | `suppliers` | create, update, activate, deactivate, delete, tier lock | partly, in `PurchaseOrders` and `TierRecalculation` |
| Products (`services/product_service.py`) | `products` | create, fetch, update with a version, delete, lists by badge | `ProductEdits`, `StockLevels` |
| Supplier tiers (`services/tier_scoring.py`, `temporal/activities/tier_activities.py`, `temporal/workflows/tier_recalculation.py`) | tier, streaks, monthly history | monthly recalculation | `TierScoring`, `TierRecalculation` |
| Automatic reorder (`temporal/activities/reorder_activities.py`, `temporal/workflows/auto_reorder.py`) | auto orders | find eligible, create, email | `AutoReorder` |
| Temporal worker (`temporal/worker.py`) | schedules | register at start | the schedules, in `TierRecalculation` and `AutoReorder` |
| Authentication (`services/auth_service.py`, `core/security.py`, `cache/service.py`) | Redis counters, revoked tokens | login, refresh, logout | `Cache`, `LoginLimit`, `Tokens` |
| Users (`services/user_service.py`) | `users` | create, update, delete | `Users` |
| Dashboard, reports (`services/dashboard_service.py`, `services/report_service.py`) | none | queries | `StockLevels`, `Reports`, partly |
| Email and its log (`temporal/activities/email_activities.py`) | `email_failure_log` | send, log a failure | sending, in `AutoReorder` and `TierRecalculation` |
| Backorder follow-up (`temporal/activities/backorder_activities.py`) | none | never started | not modelled |
| Client stores and forms (`client/src`) | persisted stores | receipt form, order wizard, token refresh | not modelled |

How they meet. Orders and receipts share the order's row and its lock: a receipt
may only be created for a shipped order and completing it may mark the order
received. Receipts and the ledger share product rows: `complete_grn` calls
`add_entry` for each line, which locks the product. Orders and suppliers share
the supplier's `is_active` and `credit_limit`; tiers and users of the supplier
service share its row. The worker places orders in the same tables without the
service, for products whose stock the receipts raise. Every call to the API is
authenticated in the session it then works in.

What is hard here. Checks made on rows read without a lock (`add_line`,
`complete_grn`, the exposure sum, the automatic orders); row locks taken in the
order of an order's lines, and by foreign keys, which can deadlock; numbers
picked from a snapshot and used after waiting for a lock; savepoints retried;
failures half-way through a completion; commits whose outcome is not learned;
activities that Temporal runs again or gives up while they go on; caches that
may fail. The list with its lines is under `hazards` in `PROJECT.json`.

What makes each component right, in one line each:

* receipt: every received line is posted once, nothing is received beyond the
  order, an order is received only when it is covered, what one call read under
  locks is still true when it commits;
* ledger: stock is the running balance of its entries, entries are only
  appended;
* orders: what was submitted is never edited, statuses move legally, totals and
  timestamps follow, credit limits are respected;
* numbers: no gaps, no duplicates, conflicts only under contention;
* session: a call stores all of its rows or none wherever it fails, and what is
  answered is stored;
* products: an edit is made to what its client has seen; a badge means the same
  on every page; a walk through the ledger is complete;
* tiers: a history row tells the supplier's tier, tiers move one rank, a run
  ends and its counters add up;
* reorder: one open automatic order per product, nobody is told of it again
  without need;
* accounts: a limit on failures that counts, holds and ends, a revoked token
  that is refused, an administrator who is left.

## Modules

`POStateMachine` holds the statuses and the transition table. All modules about
orders extend it.

`StockLedger` is what the ledger promises: one action `Post(p, q, ref)` changes
the stock and appends the entry. `Balanced` says stock equals the balance of the
last entry and entries chain.

`GoodsReceipt` is `grn_service.py` with `add_entry`. A call is a session with a
program counter; it is cut at unlocked reads used later and at row locks.

| In the model | In the code |
|---|---|
| `AddLineRead`, `AddLineCheck`/`AddLineOverReceipt`, `AddLineInsert`/`AddLineDuplicate` | `add_line`: reads GRN and order line; sums what was received; inserts |
| `CompleteRead` | `complete_grn`: reads the GRN without a lock |
| `CompleteLockPO`, `CompleteEmpty` | locks the order, reads the lines |
| `CompletePost`, `CompleteProductGone` | `add_entry` for one line |
| `CompleteListLines`, `CompleteAssess`, `CompleteBackorder` | lists the order's lines; for one after another, its total, and a backorder if it is short |
| `CompleteCommit` | received if nothing is short, reorder flag, status, commit |
| `poLock`, `productLock` | rows held `FOR UPDATE` |
| `keyShare` | products a completion's backorders refer to, held `FOR KEY SHARE` |
| `balance`, `short`, `seen`, `todo` | uncommitted writes and values read in the call |
| `DeadlockAbort`, `Abort` | PostgreSQL's deadlock detector; an error or crash before the commit |

`received` stands for the sum `get_total_received_for_po_line` computes over the
lines of all GRNs of the order; the insertion of a line, the only statement that
changes these lines, adds to it. A row with a foreign key on a product waits for
a completion that holds the product `FOR UPDATE`, and until its commit keeps
others from locking it so: `AddLineInsert` commits at once and only waits,
`CompleteBackorder` does both, also for products of the order that its own
receipt does not contain. `WaitsFor` has all these edges, so two completions may
wait for one another through two products, or through a product and a backorder.
The order lines that the order service inserts refer to products in the same
way, so a creation or an update of an order with several lines may wait for a
completion, and one for the other. That is left out: `GoodsReceipt` has the
calls of the receipt service only, and what it says of waiting is about those;
the detector that ends their circles ends that one too, and either victim is
rolled back as a whole (`Abort` here, a failed call in `PurchaseOrders`). The
mark-shipped call and the deletion of a product are there because receipts
depend on them. Barcode checks read only the product and are left out.

`OrderBook` is what the order service promises: an order enters, is edited while
a draft, moves along the state machine, or is discarded. `PurchaseOrders`
implements it. Calls that lock the order and write in one go are one action
(`Update`, `Delete`, `Transition`, `Receive`); `submit` is three (`SubmitLock`,
`SubmitSum`, `SubmitCommit`), because other calls commit while it sums the
supplier's orders without locking them; `create` is two. `sumRefused`, chosen
once, says whether the database refuses `SELECT SUM(...) FOR UPDATE`: PostgreSQL
does, the mock of the unit tests does not. Where it does, `SubmitRefused` ends
every submission to an active supplier, whatever the limit. Money is in
integers: line totals in ten-thousandths, totals and limits in cents, with the
rounding of `Numeric(12, 2)` in `Cents`. Deleting a supplier is, for orders,
`DeactivateSupplier`: either way new orders to it are refused. `Transition`
covers acknowledge, mark-shipped and cancel, which differ only in the target;
`CreateAuto` is the order the reorder activity inserts.

`PONumbers` is one year's series of numbers. `SelectTop` picks the row from the
statement's snapshot, `LockTop` waits for its lock and computes from the row it
picked, as PostgreSQL does for `ORDER BY ... LIMIT 1 FOR UPDATE` at READ
COMMITTED when the row itself has not changed. `Retry` is the second attempt
after the savepoint. `Last` stands for 999999, the last number of six digits.

`RequestSession` is the session of a call: `get_current_user` begins the
transaction, the service opens its block in one of three styles, `get_db` closes
without a commit; activities of the worker have sessions of their own. A call
may fail anywhere: in its block (`Raise`), at its commit, whose outcome it then
does not learn (`CommitLost`), and after its block, when what it wrote is read
back (`ReadBackFails`).

`TierScoring` is the decision (`Decide`) with its streaks and thresholds; rates
are fractions. `TierRecalculation` is the workflow around it. An activity is an
attempt: `AttemptReads` takes the supplier's row without a lock, `Commit` writes
the columns that changed and the history row. The commit may be reported
(`AttemptSucceeds`), lost (`CommitLost`, and the attempt is repeated), or come
after the workflow gave up (`CalculateTimesOut`, then `LateCommit`). Users lock
the tier, change the supplier's standing and receive orders meanwhile.
`RegisterSchedule` fixes the month, `Fire` starts a run or skips.

`AutoReorder` is the two-hourly run for all eligible products at once: each
attempt checks for an existing order (`SkipOrdered`), picks a number
(`PickNumber`), inserts it (`Place`) or finds it taken (`NumberTaken`); failures
are as above (`AttemptFails`, `CommitLost`, `TimesOut`). An attempt its run gave
up is in `late`: it looks, picks and inserts (`LatePick`, `LateInsert`) while
the next run works on the same product. Emails go to one manager after another
(`Tell`). `send_reorder_email` and `send_email` catch `Exception`, which a
cancellation is not: when a worker shuts down while an attempt reads
(`ReadCancelled`) or logs an email that failed (`LogCancelled`), Temporal
repeats the attempt from the first manager on, as long as the workflow waits
(`TellAgain`). Sending is a blocking call, so nothing is cancelled between two
emails that leave.

Both have a rigid variable `asTested`. In the world of the unit tests, which
replace the database columns and the calls of activities, the workflows run as
written. In the real world the history's columns are not those of the table,
`execute_activity` takes no second positional argument, and
`products.preferred_supplier_id` does not exist: no month is recalculated
(`OneMonthOnly`, an invariant of the proofs) and no order placed
(`OneSubmitted`).

`Cache` says that a call to Redis may fail or a key be lost (eviction, restart
without persistence), unless `reliable` was chosen. `LoginLimit` is the counter
of failed logins from one address: the check, the increment and the setting of
the expiry are separate calls. `Tokens` follows the tokens of one user: issued,
refreshed, presented, revoked, expired; a token has a last second, in which its
key may already be gone. `Users` is the accounts and the requests of
administrators; `overlap` says whether requests overlap.

`ProductEdits` is the catalogue seen by clients who fetch a product and send it
back with its version: `LockRow` and `UpdateProduct` are `update_product` before
and after the row lock. `LedgerPages` is a walk through `get_page` with the
cursor of the page before, while `Insert` adds entries.

`StockLevels` writes down the five expressions that decide what is low in stock:
the badge (`product_service.py`), the filter by badge (`product_repository.py`),
the dashboard's list and its badge (`dashboard_service.py`), the reorder's
eligibility (`reorder_activities.py`). `Reports` is what the two reports say of
a supplier's months: rates, rating, reason, direction, order of rows.

**Transactions.** All modules but `RequestSession` take each call as READ
COMMITTED transactions that their owner commits; the ledger service says so
("Caller owns transaction boundaries", `services/stock_ledger_service.py:60`).
`RequestSession` is about that assumption, and shows that `get_db` does not meet
it (below): the other modules describe the services as they are once a session's
owner commits.

Definitions whose name ends in `Mutant`, and `NumericTop`, are variants of the
definition that follows with one plausible bug. No action uses them; each
property has one that breaks it.

## Runs

| Run | Instance | Shows |
|---|---|---|
| `receipt_safety` | 2 sessions, 2 orders sharing 2 products, 2 GRNs, quantities 1-2, deletions | Under any overlap, deadlock and failure: `StockIsLedgerBalance`, `LedgerMatchesGrns`, `ReceivedMeansCovered`, `BackordersShrink`, `DeadlockCrossesPOs`, `LifecycleLegal`, `ReorderFlagCurrent`, refinement of `StockLedger` |
| `receipt_liveness` | the same without symmetry and deletions, quantity 1 | `CallsEnd`: no session waits for ever |
| `receipt_serial` | 1 session, 3 GRNs | Without overlap the rules of `specs/phase-4-grn-stock-ledger.spec.md` hold: `OneEntryPerLine`, `NoOverReceipt`, `CompletedGrnFrozen`, `SettledMeansInStock` |
| `overlap_double_completion` | 2 sessions, 1 GRN | violated: two completions of one GRN post its lines twice |
| `orders` | 2 sessions, 2 orders, 1 supplier, 2 products, lines of 0.0149 | `ImplementsOrderBook`, `TotalIsLines`, `StampsTellPath`; `CreditRespected` where calls do not overlap |
| `submit_refused` | the same without failures | violated: a draft within its supplier's limit is not submitted (`WithinLimitSubmits`) |
| `calls` | 3 creations, 2 attempts, numbers up to 3 and one past; 2 calls, 1 connection, 2 rows | `Gapless`, `ConflictNeedsOvertaking`, `SeriesEnds`, `CallsEnd`; `AllOrNothing`, `OnlyActivitiesStore`, `ConnectionsReturn` |
| `session_lost_write` | 3 calls, 2 connections, 2 rows | violated: a request answered with success stores nothing |
| `tiers` | 2 suppliers of Silver or Gold, one of them trading and managed, 2 months, 2 attempts | `RowTellsTier`, `CountsAddUp`, `TierMoves`, `RunsEnd` |
| `tier_wrong_month` | the same | violated: a run records the month it runs in (`RecordsTheMonth`) |
| `reorder` | 2 products, 2 managers, 2 attempts, 2 numbers, 1 attempt given up at a time | `OneSubmitted`, `TakenNeedsOthers`, `ToldAgain` |
| `services` | 3 logins under way, limit 3; 3 tokens, 2 calls; 3 users, 2 requests; 3 clients, 2 products, 2 barcodes, 3 versions; 6 ledger entries, pages of 2 | `LimitHolds`, `BlockEnds`, `RevokedRefused`, `DeletionLeavesAnAdmin`, `EditsBuildOnCopy`, `WalkComplete` |

`receipt_safety` also checks the inductive invariant (`IInv`) of its proofs.
`MCCalls` (`PONumbers`, `RequestSession`) and `MCServices` (accounts and
catalogue) hold components that share no state: the variable `part` picks which
one runs, for the steps of the others cannot matter to it. `MCServices` also
evaluates, as assumptions over small numbers, what is proved of `StockLevels`
and `Reports`.

**Bounds.** Two sessions are enough for every race of two calls, and for a
deadlock, which needs two products and two orders. A third GRN in the serial run
allows two partial receipts and a last one. Quantities up to two allow partial,
exact and excessive receipts. A line of 0.0149 is rounded down and two of them
up; a limit of 0.02 takes two orders of one line. Three creations with two
attempts reach the conflict answer, and `Last = 3` the end of the series. Two
calls on one connection make one wait, as three do on two. In `tiers` an order
volume is good enough for Diamond or too bad for any tier, attempts whose
commits were lost or late and a run in each of two months let streaks reach a
promotion and a demotion, and the second month comes after the schedule was
fixed. In `reorder` two numbers allow a second order after the first was
acknowledged or beside it, one attempt given up meets its successor, and a
second manager is written to again after an email to the first failed. In
`services` a third login fails while the first sets the expiry, three clients
hold three different versions, and six entries make three pages.

Bounds of instances, not of the code: `Failures` in `PurchaseOrders`,
`Deletable` in `GoodsReceipt`, `Last` (999999 in the code), `LastMonth`,
`Traded`, `Managed`, `FirstTiers` in `TierRecalculation`, `LastNumber`,
`Strays`, `LastFailure` (only where the counter cannot be read), `LastVersion`,
`LastId`. `Attempts` and `Limit` stand for settings. `overlap`, `sumRefused`,
`asTested` and `reliable` are chosen at the start and never change; a property
that holds in one world only names it.

**Deadlock checking** is off where all work may be done: receipts, sessions,
tiers after the last month, products or tokens all gone, and in
`submit_refused`, where without failures the two identifiers are used up. In
`orders` some action is always enabled.

**Fairness.** Strong fairness of each session's steps: PostgreSQL queues the
waiters of a row lock or an index entry, and SQLAlchemy those of the pool, so a
call that can go on again and again goes on in the end. Weak fairness of the
deadlock detector, which is a timer. Nothing is assumed of callers, failures,
rejections and timeouts. In `PONumbers` (`Fairness`) and `RequestSession`
(`SessionFairness`) the number of attempts is bounded by the code. In
`TierRecalculation`, weak fairness of the run's step: Temporal hands out its
tasks and times its activities out; not of users, attempts given up or the
calendar. In `LoginLimit`, weak fairness of the setting of the expiry, which the
server does right after the increment, and of the end of a key that expires.
`RunsEnd` is claimed where activities can be called and `BlockEnds` where the
cache works: elsewhere the code really gets stuck (below).

## What the checks found

Four are violation runs, listed with their quotes under `findings`.

1. `session_lost_write`: the request's session is never committed. A service
   that opens a block finds the transaction `get_current_user` began, uses a
   savepoint, answers 201, and `get_db` rolls back. Services that call
   `session.begin()` are refused outright. The integration tests share one
   session and override the user dependency, so they do not see it. Only the
   worker's activities store anything (`OnlyActivitiesStore`, proved).
2. `overlap_double_completion`: `complete_grn` checks a GRN's status before it
   locks anything, so two completions of one GRN both post its lines. In the
   same way two `add_line` calls exceed an order together, and `add_line`
   inserts into a GRN completed meanwhile; `receipt_serial` shows these rules
   for calls one at a time.
3. `submit_refused`: the exposure sum is selected `FOR UPDATE`, which PostgreSQL
   refuses for an aggregate, so no order is submitted except by the reorder
   workflow (`NobodyElseSubmits`, proved).
   `specs/phase-3-po-lifecycle.spec.md:129-130` and
   `tests/integration/test_po_credit_limit.py:14-29` promise that a draft within
   the limit is. Were the sum accepted, two overlapping submissions could still
   both fit the limit.
4. `tier_wrong_month`: the schedule's arguments are the month of the worker's
   first start, and later runs recalculate and record that month again
   (`AlwaysOneMonth`, proved). `specs/phase-5-temporal-workflows.spec.md:55-62`
   promises a record per supplier and month.

Seen while modelling, and stated by properties that name the condition:

* After order 1000000 of a year no order of that year can be created
  (`SeriesEnds`, proved).
* A repeated attempt at a supplier's recalculation advances the streak again.
  With the rate of deliveries on time fixed at 0.90 nobody is ever promoted to
  Diamond (`TierMoves`, proved). After a change of tier whose email timed out
  the supplier is counted twice (`CountsAddUp`).
* In the real world the summary's call raises outside any handler, so the run
  never ends and the schedule skips all later ones.
* A reorder whose commit was reported lost is skipped on the next attempt: the
  order exists and nobody is told. An order acknowledged and not yet received no
  longer counts as existing, and the product is ordered again two hours later.
* "This activity never raises" (`reorder_activities.py:281`, and in capitals
  `email_activities.py:27`) is not so when a worker shuts down: the attempt is
  repeated and writes to managers again (`ToldAgain` says when and how often).
* The first failure's expiry writes the counter back to 1: one window lets
  through up to twice the limit and more (`LimitHolds`), where
  `specs/phase-1-backend-foundation.spec.md:133` has the sixth attempt answered
  429. A server stopped between the increment and the expiry leaves a block
  without an end.
* The check for the last administrator can refuse nobody, as the caller is one
  other than the target; overlapping, two administrators can delete each other,
  and `update_user` can demote the last one.
* Report reasons count today's streaks, which a move resets: right after a
  promotion a report tells "after 0 consecutive qualifying months"
  (`ReasonForgetsTheStreak`, proved).
* An override of 0 means "none" everywhere, also in the reorder, whose docstring
  says `COALESCE(low_stock_threshold_override, reorder_point)`.
* No statement sets an order to `closed`; deleting a product that an open GRN
  has a line for makes that GRN uncompletable; partial receipts add backorders
  and none is closed.

## Proofs

The modules whose names end in `Proofs`, and `SumTheorems`, prove, for every
number of sessions, orders, products, suppliers, users and so on:

* **Sums.** `SumTheorems` proves of `SumFunctionOnSet`, a fold of the library,
  its equation for removing any element (`SumRemove`), its type (`SumNat`), and
  that it depends only on the summands (`SumSame`). The induction theorems
  cannot be used here, so each proof looks at a smallest set that is a
  counterexample; the same argument shows first that the fold's recursion has a
  solution (`FoldSolves`) and only one (`SolutionUnique`).
* **Ledger** (in `GoodsReceiptProofs`). Stock is the balance of the ledger and
  never negative. Appending an entry keeps the chain (`AppendKeepsChain`).
* **Receipt, calls that overlap.** Types, `ReceivedMeansCovered`,
  `LifecycleLegal`, `DeadlockCrossesPOs`, and that `GoodsReceipt` implements
  `StockLedger`; from which `StockIsLedgerBalance`. These are not inductive:
  whether a commit may write `balance` depends on nobody having changed `stock`
  since. `IInv` says what a session may rely on in the middle of a call
  (`CurrentFor`): it holds the rows it read for update, the balances it wrote
  are the stock plus its lines, and what it found outstanding is no less than
  what is outstanding now, because lines are only added. The proof of a step
  shows that one session's step keeps what the others rely on
  (`LockedStockKept`, `OutstandingShrinks`, `KeptSessionOK`).
  `DeadlockCrossesPOs` follows from who may hold what: `productLock` and
  `keyShare` belong to completions, and those that are past their first lock
  hold different orders. On top of it:
  * `LedgerMatchesGrns`: what a completion has read of its lines is still what
    they are (`SeenIsLine`), since a line once added is never changed;
  * `BackordersShrink`: each backorder asks for at least what is outstanding
    now, and so does each one a completion is about to write (`BackorderIInv`);
  * `ReorderFlagCurrent`: the only step that appends entries is a commit, whose
    flag is computed from the rows it holds.
* **Receipt, calls that do not overlap.** `NoOverReceipt`, `OneEntryPerLine`,
  `CompletedGrnFrozen` and `SettledMeansInStock`, from `Spec /\ []NoOverlap`:
  any number of sessions, each starting its call after the one before has ended.
  A call that runs alone works on an open GRN until its end, and what it read
  stays so (`SerialIInv`). `SettledMeansInStock` needs the books (`BooksIInv`):
  what is counted as received of an order line is what the ledger holds for the
  order plus what its open GRNs hold. Both are sums, and a commit moves the
  lines of one GRN from the second to the first.
* **Orders.** `TotalIsLines`, `StampsTellPath`, and the refinement of
  `OrderBook`. The strengthening is `SubmissionsHoldDrafts`: between its lock
  and its commit a submission holds the row of an undeleted draft, so the commit
  is a legal move. `CreditRespected` needs `SerialOK`: while calls do not
  overlap, the limit a submission read and the sum it compared with it are those
  at its commit. `NobodyElseSubmits` is what the violation of
  `WithinLimitSubmits` comes to: where the sum is refused, no submission gets as
  far as its commit (`RefusalOK`).
* **Numbers.** `Gapless`, `ConflictNeedsOvertaking`, `SeriesEnds`. `IInv`
  relates a session to the number `k` of orders committed now and `b` at its
  start: in its a-th attempt it asks for no less than `b + a` and at most `k +
  1`, and only one session can have `k + 1` inserted.
* **Session** (in `AccountsProofs`). `AllOrNothing`, `OnlyActivitiesStore`: a
  request's transaction is never owned by its service, so its block commits
  nothing; an activity's block does, once and with all rows, and what follows
  can only hide that (`SessionIInv`).
* **Tiers.** `RowTellsTier`, `TierMoves`, and `AlwaysOneMonth`, which is what
  the violation of `RecordsTheMonth` comes to. `IInv` adds that an unfinished
  attempt still knows the tier and streaks its supplier has (`AttemptCurrent`):
  only attempts write them, and a supplier has one at a time, so a late commit
  builds on nothing stale. Locks are the one column it may miss. `CountsAddUp`
  is a count: a supplier may be counted again only while the email about its new
  tier is on its way, and then one of the moved has not used up its second count
  (`CountsOK`).
* **Reorder.** `OneSubmitted`, `TakenNeedsOthers`, `ToldAgain`. A number
  somebody picked is `Fresh`: at most one past the series; if it is that one,
  nothing was placed since the look for an open order, so the product still has
  none; below it an order was placed since, and the insertion will fail. This
  holds of the attempt a workflow waits for (`AttemptOK`) and of those given up
  (`LateOK`). The losses of a creation are at most the orders placed since it
  began. `MailOK` says whom an attempt at the emails may still write to, and how
  often they were.
* **Accounts.** `RevokedRefused` from: a revoked token has its key until its
  last second. `DeletionLeavesAnAdmin` from: with one request at a time, its
  caller is still the administrator that was authorised. `LimitHolds` from
  `LimitIInv`, a count: until the key expires one login is about to set that,
  and the counter with the logins let in stays below the limit plus the logins
  there are; the proof turns cardinalities into arithmetic (`Counted`).
* **Catalogue.** `EditsBuildOnCopy`: who holds a row has seen its version, and
  equal versions mean equal data. `WalkComplete`: what a walk has shown is all
  there was up to its cursor and nothing beyond. The five readings of "low in
  stock" agree (`FilterIsBadge`, for stock that is not negative,
  `DashboardIsBadge`, `ReorderIsLowStock`); the rating never needs its clamp,
  the summary tells the decision's move and puts promotions first.

Assumptions: the sentinels (`None`, `NoOne`, `Unset`, `Missing`) are none of the
other values; quantities and line totals are positive and limits natural
numbers, as the request schemas demand; products (for the lines of an order),
suppliers and logins under way are finitely many, as rows and connections are.
Nothing is assumed about sums. `NoOverlap` is no assumption on a constant but a
condition on the behaviour, met by every behaviour of `receipt_serial` and by
those of `receipt_safety` in which the sessions take turns; what happens without
it is `overlap_double_completion` and the second point under "What the checks
found".

Only model-checked: liveness (`CallsEnd`, `ConnectionsReturn`, `RunsEnd`,
`BlockEnds`), which with fairness is out of the prover's reach. Every other
property of a passing run is stated by a theorem.

## Not modelled, and the plan

* Backorder follow-up: nothing starts the workflow, `backorder_service.py` is
  empty. The email failure log is written and never read.
* Dashboard counts other than low stock, CSV and HTML rendering, listings by
  offset, health, configuration, error classes: queries and formats without
  state. Validation gives the modules their assumptions.
* Migrations and seed data run before the system is in use.
* `token_version` (nothing increments it) and barcode checks at receipt (they
  read the product only).
* The client: its stores, the receipt form, the order wizard, the refresh of
  tokens.

Next: the client's receipt form, interrupted and resumed, over `GoodsReceipt`.
