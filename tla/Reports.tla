------------------------------ MODULE Reports ------------------------------
(***************************************************************************)
(* The two reports of services/report_service.py: what a supplier's        *)
(* history says month by month, and what one month says of all suppliers.  *)
(* They read supplier_metrics_history and the suppliers as they are now.   *)
(***************************************************************************)
EXTENDS TierScoring, FiniteSets

CONSTANT Missing   \* no tier in a history row, or no history row

ASSUME MissingAssumption == Missing \notin Tiers

Period  == [year : Nat, month : 1 .. 12]
History == [orders : Nat, onTime : Nat, lines : Nat, defects : Nat, tier : Tiers \cup {Missing}]
Supplier == [tier : Tiers, locked : BOOLEAN, good : Nat, bad : Nat]

\* generate_supplier_report: _MIN_MONTHS and _MAX_MONTHS.
MonthsAccepted(months) == months >= 1 /\ months <= 36

Serial(period) == 12 * period.year + period.month

\* _fetch_supplier_history: the last so many of a supplier's periods.
LastPeriods(periods, months) ==
  {p \in periods : Cardinality({q \in periods : Serial(q) > Serial(p)}) < months}

\* tier_at_period_end, or what the supplier's tier is now.
Assigned(h, sup) == IF h.tier = Missing THEN sup.tier ELSE h.tier

Insufficient(h) == h.lines < MIN_PO_LINES

Rate(part, all) == IF all > 0 THEN [num |-> part, den |-> all] ELSE [num |-> 0, den |-> 1]

\* _compute_rating: "(on_time_rate * 0.6 + (1 - backorder_rate) * 0.4) * 5.0",
\* kept between 0 and 5.
Raw(onTime, backorder) ==
  [num |-> 3 * onTime.num * backorder.den + 2 * (backorder.den - backorder.num) * onTime.den,
   den |-> onTime.den * backorder.den]
Rating(onTime, backorder) ==
  LET raw == Raw(onTime, backorder)
  IN [raw EXCEPT !.num = IF @ < 0 THEN 0 ELSE IF @ > 5 * raw.den THEN 5 * raw.den ELSE @]
RatingOf(h) == Rating(Rate(h.onTime, h.orders), Rate(h.defects, h.lines))

\* _derive_decision_reason, and the number of months it tells, 0 where it tells
\* none: that is the supplier's streak of today.
Reason(insufficient, assigned, previous, sup) ==
  IF insufficient THEN [text |-> "insufficient", months |-> 0]
  ELSE IF previous = Missing THEN [text |-> "initial", months |-> 0]
  ELSE IF assigned = previous THEN [text |-> "maintained", months |-> 0]
  ELSE IF TIER_ORDER[assigned] > TIER_ORDER[previous]
         THEN [text |-> "promoted", months |-> sup.good]
         ELSE [text |-> "demoted", months |-> sup.bad]

\* _write_supplier_data_rows: a row is compared with the one before it in the
\* report, whatever months lie between them.
SupplierRows(rows, sup) ==
  [i \in DOMAIN rows |->
    LET h == rows[i]
        previous == IF i = 1 THEN Missing ELSE Assigned(rows[i - 1], sup)
    IN [tier |-> Assigned(h, sup), rating |-> RatingOf(h),
        reason |-> Reason(Insufficient(h), Assigned(h, sup), previous, sup)]]

-----------------------------------------------------------------------------
\* generate_monthly_summary.
PriorMonth(period) ==
  IF period.month = 1 THEN [year |-> period.year - 1, month |-> 12]
  ELSE [period EXCEPT !.month = @ - 1]

\* _build_monthly_summary_rows, for a supplier that is not deleted; before is its
\* row of the prior month.
Direction(assigned, previous) ==
  IF previous = Missing \/ assigned = previous THEN "None"
  ELSE IF TIER_ORDER[assigned] > TIER_ORDER[previous] THEN "Promoted" ELSE "Demoted"
SummaryRow(name, h, before, sup) ==
  LET previous == IF before = Missing THEN Missing ELSE Assigned(before, sup)
  IN [name |-> name, previous |-> previous, tier |-> Assigned(h, sup),
      direction |-> Direction(Assigned(h, sup), previous),
      insufficient |-> Insufficient(h), rating |-> RatingOf(h)]

\* _sort_monthly_rows; names are numbers in their order.
Primary(row) == IF row.insufficient THEN 2 ELSE IF row.direction # "None" THEN 0 ELSE 1
Secondary(row) ==
  IF row.direction = "Promoted" THEN 0 ELSE IF row.direction = "Demoted" THEN 1 ELSE 2
Precedes(a, b) ==
  \/ Primary(a) < Primary(b)
  \/ Primary(a) = Primary(b) /\ Secondary(a) < Secondary(b)
  \/ Primary(a) = Primary(b) /\ Secondary(a) = Secondary(b) /\ a.name < b.name

=============================================================================
