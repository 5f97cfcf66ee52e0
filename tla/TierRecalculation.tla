------------------------- MODULE TierRecalculation -------------------------
(***************************************************************************)
(* The monthly recalculation of supplier tiers:                            *)
(* temporal/workflows/tier_recalculation.py, its activities in             *)
(* temporal/activities/tier_activities.py, the schedule that               *)
(* temporal/worker.py registers, and what users do to suppliers meanwhile. *)
(*                                                                         *)
(* An activity is an attempt that Temporal repeats when it fails.  The     *)
(* attempt for a supplier is one transaction: it reads the supplier, later *)
(* writes and commits.  It may commit and yet be reported as failed, and   *)
(* it may go on after the workflow has given up waiting for it.            *)
(*                                                                         *)
(* asTested, chosen once, says in which world the code runs.  The unit     *)
(* tests replace the writing of the history row and the calls of           *)
(* activities.  In the real world the row's columns are not those of the   *)
(* table, and execute_activity takes no second positional argument.        *)
(***************************************************************************)
EXTENDS TierScoring, FiniteSets

CONSTANTS
  Suppliers,
  Volumes,       \* what a month's orders may come to: [lines, backorders]
  Attempts,      \* RetryPolicy.maximum_attempts
  LastMonth,     \* bound: the clock stops in this month
  FirstTiers,    \* bound: the tiers suppliers have when the worker first starts
  Traded,        \* bound: the suppliers and months with orders received
  Managed,       \* bound: the suppliers whose lock and standing users change
  None

ASSUME NoneAssumption == None \notin Suppliers /\ None \notin Nat
ASSUME SuppliersAssumption == IsFiniteSet(Suppliers)
ASSUME VolumesAssumption == Volumes \subseteq [lines : Nat, backorders : Nat]
ASSUME NumbersAssumption == Attempts \in Nat \ {0} /\ LastMonth \in Nat \ {0}
ASSUME BoundsAssumption ==
  /\ FirstTiers \subseteq Tiers
  /\ Traded \subseteq Suppliers \X (1 .. LastMonth)
  /\ Managed \subseteq Suppliers

VARIABLES
  asTested,
  now, due,      \* this month; is its first day, 23:00, still to come?
  schedule,      \* the month the registered schedule passes on, or None
  row,           \* suppliers: current_tier, tier_locked, consecutive_on_time
                 \* and consecutive_late as tier, locked, good and bad
  standing,      \* suppliers: active, inactive or deleted
  volume,        \* what a supplier's orders received in a month come to
  history,       \* supplier_metrics_history of a supplier and month, or None
  step,          \* where the workflow's run is
  ids, queue,    \* the run's suppliers, and those it has not come to yet
  at, failed,    \* the supplier at hand, failed attempts of its activity
  counts,        \* the run's counters
  attempt        \* the supplier row as an unfinished attempt read it, or None

clock == <<now, due, schedule>>
data  == <<row, standing, volume, history>>
run   == <<step, ids, queue, at, failed, counts>>
vars  == <<asTested, clock, data, run, attempt>>

-----------------------------------------------------------------------------
Months   == 1 .. LastMonth
Row      == [tier : Tiers, locked : BOOLEAN, good : Nat, bad : Nat]
Counters == {"promoted", "demoted", "unchanged", "insufficient"}
Steps    == {"idle", "list", "next", "calculate", "notify", "summary", "stuck"}
History  == [before : Tiers, after : Tiers, insufficient : BOOLEAN]
Zero     == [c \in Counters |-> 0]
Nothing  == [lines |-> 0, backorders |-> 0]

TypeOK ==
  /\ asTested \in BOOLEAN
  /\ now \in Months /\ due \in BOOLEAN /\ schedule \in Months \cup {None}
  /\ row \in [Suppliers -> Row]
  /\ standing \in [Suppliers -> {"active", "inactive", "deleted"}]
  /\ volume \in [Suppliers -> [Months -> Volumes \cup {Nothing}]]
  /\ history \in [Suppliers -> [Months -> History \cup {None}]]
  /\ step \in Steps
  /\ ids \subseteq Suppliers /\ queue \subseteq ids
  /\ at \in Suppliers \cup {None}
  /\ failed \in Nat
  /\ counts \in [Counters -> Nat]
  /\ attempt \in [Suppliers -> Row \cup {None}]

Init ==
  /\ asTested \in BOOLEAN
  /\ now = 1 /\ due \in BOOLEAN /\ schedule = None
  /\ row \in [Suppliers -> {[tier |-> t, locked |-> FALSE, good |-> 0, bad |-> 0] : t \in FirstTiers}]
  /\ standing = [s \in Suppliers |-> "active"]
  /\ volume = [s \in Suppliers |-> [m \in Months |-> Nothing]]
  /\ history = [s \in Suppliers |-> [m \in Months |-> None]]
  /\ step = "idle" /\ ids = {} /\ queue = {} /\ at = None /\ failed = 0
  /\ counts = Zero
  /\ attempt = [s \in Suppliers |-> None]

-----------------------------------------------------------------------------
(* Time, users and the worker's start. *)

\* A month ends once its run was started, or skipped, by the schedule; no
\* attempt takes that long.
NextMonth ==
  /\ now < LastMonth
  /\ due => schedule = None
  /\ \A s \in Suppliers : attempt[s] = None
  /\ now' = now + 1 /\ due' = TRUE
  /\ UNCHANGED <<asTested, schedule, data, run, attempt>>

\* Orders are received, partly with backorders: a month's lines only grow.
Receive(s, v) ==
  /\ <<s, now>> \in Traded
  /\ v.lines > volume[s][now].lines /\ v.backorders >= volume[s][now].backorders
  /\ volume' = [volume EXCEPT ![s][now] = v]
  /\ UNCHANGED <<asTested, clock, row, standing, history, run, attempt>>

\* set_tier_lock; the supplier's other columns are not written.
SetTierLock(s, locked) ==
  /\ s \in Managed
  /\ standing[s] # "deleted"
  /\ row' = [row EXCEPT ![s].locked = locked]
  /\ UNCHANGED <<asTested, clock, standing, volume, history, run, attempt>>

\* activate_supplier, deactivate_supplier and delete_supplier.
SetStanding(s, to) ==
  /\ s \in Managed
  /\ standing[s] # "deleted"
  /\ standing' = [standing EXCEPT ![s] = to]
  /\ UNCHANGED <<asTested, clock, row, volume, history, run, attempt>>

\* The worker starts: a schedule that exists is left as it is.
RegisterSchedule ==
  /\ schedule = None
  /\ schedule' = now
  /\ UNCHANGED <<asTested, now, due, data, run, attempt>>

\* The schedule's time has come: a run starts unless the last still goes on.
Fire ==
  /\ schedule # None /\ due
  /\ due' = FALSE
  /\ step' = IF step = "idle" THEN "list" ELSE step
  /\ UNCHANGED <<asTested, now, schedule, data, ids, queue, at, failed, counts, attempt>>

-----------------------------------------------------------------------------
(* The run.  Every disjunct of Step takes it on. *)

\* An activity ran out of attempts or time, and nothing catches its error.
RunFails ==
  /\ step = "list" \/ (step = "summary" /\ asTested)
  /\ step' = "idle"
  /\ UNCHANGED <<asTested, clock, data, ids, queue, at, failed, counts, attempt>>

\* get_all_active_suppliers; without any the run is over.
ListSuppliers == LET active == {s \in Suppliers : standing[s] = "active"} IN
  /\ step = "list"
  /\ step' = IF active = {} THEN "idle" ELSE "next"
  /\ ids' = active /\ queue' = active
  /\ counts' = Zero
  /\ UNCHANGED <<asTested, clock, data, at, failed, attempt>>

CountMutant(c) == counts' = [counts EXCEPT ![c] = @ + 1, !["unchanged"] = @ + 1]
Count(c) == counts' = [counts EXCEPT ![c] = @ + 1]

\* The loop comes to the next supplier: in the real world the call raises at
\* once and the loop counts the supplier as unchanged.
NextSupplier(s) ==
  /\ step = "next" /\ s \in queue
  /\ queue' = queue \ {s}
  /\ IF asTested
       THEN step' = "calculate" /\ at' = s /\ failed' = 0 /\ UNCHANGED counts
       ELSE Count("unchanged") /\ UNCHANGED <<step, at, failed>>
  /\ UNCHANGED <<asTested, clock, data, ids, attempt>>

LoopEnds ==
  /\ step = "next" /\ queue = {}
  /\ step' = "summary"
  /\ UNCHANGED <<asTested, clock, data, ids, queue, at, failed, counts, attempt>>

\* calculate_supplier_tier reads the supplier, without a lock.
AttemptReads ==
  /\ step = "calculate" /\ attempt[at] = None
  /\ standing[at] # "deleted"
  /\ attempt' = [attempt EXCEPT ![at] = row[at]]
  /\ UNCHANGED <<asTested, clock, data, run>>

\* A deleted supplier counts as one with too little data.
AttemptFindsNone ==
  /\ step = "calculate" /\ attempt[at] = None
  /\ standing[at] = "deleted"
  /\ Count("insufficient")
  /\ step' = "next"
  /\ UNCHANGED <<asTested, clock, data, ids, queue, at, failed, attempt>>

BackorderRate(v) == [num |-> v.backorders, den |-> v.lines]

\* The placeholder for the rate of deliveries on time.
OnTimeRateMutant == [num |-> 95, den |-> 100]
OnTimeRate == [num |-> 90, den |-> 100]

Scored(v) == v.lines >= MIN_PO_LINES

\* What the attempt for s makes of the supplier it read.
Decision(s) == LET v == volume[s][schedule] IN
  IF Scored(v) THEN Decide(attempt[s], BackorderRate(v), OnTimeRate) ELSE attempt[s]

\* _upsert_metrics_history.
UpsertMutant(s, entry) ==
  history' = [history EXCEPT ![s][schedule] = IF @ = None THEN entry ELSE @]
Upsert(s, entry) == history' = [history EXCEPT ![s][schedule] = entry]

\* The attempt for s commits: the columns that changed, never the lock.
Commit(s) == LET new == Decision(s) IN
  /\ attempt[s] # None
  /\ row' = [row EXCEPT ![s] = [new EXCEPT !.locked = row[s].locked]]
  /\ Upsert(s, [before |-> attempt[s].tier, after |-> new.tier,
                insufficient |-> ~Scored(volume[s][schedule])])
  /\ attempt' = [attempt EXCEPT ![s] = None]

Direction(s) == LET old == attempt[s].tier  new == Decision(s).tier IN
  IF ~Scored(volume[s][schedule]) THEN "insufficient"
  ELSE IF new = old THEN "unchanged"
  ELSE IF TIER_ORDER[new] > TIER_ORDER[old] THEN "promoted" ELSE "demoted"

\* The attempt commits and the workflow learns of it.
AttemptSucceeds ==
  /\ step = "calculate"
  /\ Commit(at)
  /\ Count(Direction(at))
  /\ step' = IF Direction(at) \in {"promoted", "demoted"} THEN "notify" ELSE "next"
  /\ UNCHANGED <<asTested, clock, standing, volume, ids, queue, at, failed>>

\* Nothing more is tried for this supplier: it counts as unchanged.
GiveUp ==
  /\ Count("unchanged")
  /\ step' = "next"

\* A failed attempt is repeated, at most Attempts times in all.
RepeatMutant == UNCHANGED <<step, counts, failed>>
Repeat ==
  IF failed + 1 < Attempts
    THEN failed' = failed + 1 /\ UNCHANGED <<step, counts>>
    ELSE GiveUp /\ UNCHANGED failed

\* The attempt fails and its transaction is rolled back.
AttemptFails ==
  /\ step = "calculate"
  /\ attempt' = [attempt EXCEPT ![at] = None]
  /\ Repeat
  /\ UNCHANGED <<asTested, clock, data, ids, queue, at>>

\* The attempt commits, but an error or a shutdown hides that from Temporal.
CommitLost ==
  /\ step = "calculate"
  /\ Commit(at)
  /\ Repeat
  /\ UNCHANGED <<asTested, clock, standing, volume, ids, queue, at>>

\* Ten minutes are over; an attempt on its way is not stopped.
CalculateTimesOut ==
  /\ step = "calculate"
  /\ GiveUp
  /\ UNCHANGED <<asTested, clock, data, ids, queue, at, failed, attempt>>

\* send_tier_change_email catches its errors, whether or not the email leaves.
Notify ==
  /\ step = "notify"
  /\ step' = "next"
  /\ UNCHANGED <<asTested, clock, data, ids, queue, at, failed, counts, attempt>>

\* No worker took the email up in time, or shutdowns cancelled each attempt at it,
\* which it does not catch: the loop's handler counts the supplier again.
NotifyTimesOut ==
  /\ step = "notify"
  /\ GiveUp
  /\ UNCHANGED <<asTested, clock, data, ids, queue, at, failed, attempt>>

\* send_monthly_summary_email; in the real world the call raises outside any
\* handler, and Temporal repeats the workflow task for ever.
Summarise ==
  /\ step = "summary"
  /\ step' = IF asTested THEN "idle" ELSE "stuck"
  /\ UNCHANGED <<asTested, clock, data, ids, queue, at, failed, counts, attempt>>

-----------------------------------------------------------------------------
(* Attempts the workflow no longer waits for. *)

Late(s) == attempt[s] # None /\ ~(step = "calculate" /\ at = s)

LateCommit(s) ==
  /\ Late(s)
  /\ Commit(s)
  /\ UNCHANGED <<asTested, clock, standing, volume, run>>

LateRollback(s) ==
  /\ Late(s)
  /\ attempt' = [attempt EXCEPT ![s] = None]
  /\ UNCHANGED <<asTested, clock, data, run>>

Step ==
  \/ RunFails \/ ListSuppliers
  \/ \E s \in Suppliers : NextSupplier(s)
  \/ LoopEnds
  \/ AttemptReads \/ AttemptFindsNone \/ AttemptSucceeds
  \/ AttemptFails \/ CommitLost \/ CalculateTimesOut
  \/ Notify \/ NotifyTimesOut \/ Summarise

Next ==
  \/ NextMonth \/ RegisterSchedule \/ Fire \/ Step
  \/ \E s \in Suppliers :
       \/ \E v \in Volumes : Receive(s, v)
       \/ \E locked \in BOOLEAN : SetTierLock(s, locked)
       \/ \E to \in {"active", "inactive", "deleted"} : SetStanding(s, to)
       \/ LateCommit(s) \/ LateRollback(s)

Spec == Init /\ [][Next]_vars

\* Temporal takes a run on: it hands out tasks and times activities out.
FairSpec == Spec /\ WF_vars(Step)

-----------------------------------------------------------------------------
(* What a team would expect of a month that is recalculated once: a history   *)
(* row that tells the supplier's tier, whatever attempts were lost, repeated  *)
(* or late, and whatever was locked, deactivated or deleted meanwhile.        *)

\* A history row of calculate_supplier_tier ends in the tier the supplier has.
RowTellsTier ==
  \A s \in Suppliers, m \in Months :
    history[s][m] # None => history[s][m].after = row[s].tier

\* worker.py fixes the schedule's month when it first starts: no other month is
\* ever recalculated, and in the real world none at all.
OneMonthOnly ==
  \A s \in Suppliers, m \in Months :
    history[s][m] # None => asTested /\ m = schedule

\* specs/phase-5-temporal-workflows.spec.md:57-62: the run of each month scores
\* the suppliers "with the month's aggregated metrics" and writes "one
\* SupplierMetricsHistory record per supplier per month": what a run records is
\* the month it runs in.  Violated: see OneMonthOnly.
RecordsTheMonth ==
  [][\A s \in Suppliers, m \in Months : history'[s][m] # history[s][m] => m = now]_vars

\* A tier moves one rank at a time, only for a supplier whose lock the attempt
\* did not see, and never up to Diamond: the fixed rate of deliveries on time
\* is not enough for it.
TierMoves ==
  [][\A s \in Suppliers : row'[s].tier # row[s].tier =>
       /\ attempt[s] # None /\ ~attempt[s].locked
       /\ TIER_ORDER[row'[s].tier] - TIER_ORDER[row[s].tier] \in {-1, 1}
       /\ row'[s].tier # "Diamond"]_vars

\* The summary's total: every supplier of the run is counted once, and once
\* more only after a change of its tier, when the email about it timed out.
CountsAddUp ==
  LET total == counts["promoted"] + counts["demoted"]
               + counts["unchanged"] + counts["insufficient"]
      open  == Cardinality(queue) + IF step = "calculate" THEN 1 ELSE 0
  IN /\ total + open >= Cardinality(ids)
     /\ total + open <= Cardinality(ids) + counts["promoted"] + counts["demoted"]

\* Where activities can be called, a run ends, however its attempts fail.
RunsEnd == (asTested /\ step # "idle") ~> (step = "idle")

\* An attempt knows the tier and the streaks its supplier still has: nothing but
\* attempts writes them, and a supplier has one at a time.
AttemptCurrent(s) ==
  attempt[s] # None =>
    /\ asTested /\ schedule # None
    /\ attempt[s].tier = row[s].tier
    /\ attempt[s].good = row[s].good /\ attempt[s].bad = row[s].bad

\* The inductive invariant.
IInv ==
  /\ TypeOK
  /\ step # "idle" => schedule # None
  /\ step \in {"calculate", "notify"} => asTested /\ at # None
  /\ \A s \in Suppliers : AttemptCurrent(s)
  /\ RowTellsTier
  /\ OneMonthOnly

=============================================================================
