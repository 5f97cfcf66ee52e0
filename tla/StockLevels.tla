---------------------------- MODULE StockLevels ----------------------------
(***************************************************************************)
(* Which products are low in stock.  The badge of a product, the list of   *)
(* products with a badge, the list on the dashboard and the listing of the *)
(* automatic reorder each decide that in words of their own:               *)
(* services/product_service.py, repositories/product_repository.py,        *)
(* services/dashboard_service.py, temporal/activities/reorder_activities.py *)
(* (and GoodsReceipt, for the flag of a completed receipt).                *)
(***************************************************************************)
EXTENDS Integers, FiniteSets

CONSTANT Unset   \* a low_stock_threshold_override that is not given

ASSUME UnsetAssumption == Unset \notin Nat

\* schemas/product.py: neither the reorder point nor the override is negative.
Stocked == [stock : Int, point : Nat, override : Nat \cup {Unset}, deleted : BOOLEAN]
Badges  == {"out_of_stock", "low_stock", "in_stock"}

\* compute_stock_badge.
BadgeThreshold(p) ==
  IF p.override # Unset /\ p.override > 0 THEN p.override ELSE p.point
Badge(p) ==
  IF p.stock <= 0 THEN "out_of_stock"
  ELSE IF p.stock <= BadgeThreshold(p) THEN "low_stock" ELSE "in_stock"

\* COALESCE(NULLIF(low_stock_threshold_override, 0), reorder_point).
Effective(p) == IF p.override \in {Unset, 0} THEN p.point ELSE p.override

\* list_with_filters.
WithBadge(p, badge) ==
  /\ ~p.deleted
  /\ \/ badge = "out_of_stock" /\ p.stock = 0
     \/ badge = "low_stock" /\ p.stock > 0 /\ p.stock <= Effective(p)
     \/ badge = "in_stock" /\ p.stock > Effective(p)

\* get_low_stock, in its order, and the count that every dashboard shows.
LowStock(p) == ~p.deleted /\ p.stock <= Effective(p)
LowStockCount(catalogue) == Cardinality({p \in catalogue : LowStock(p)})
LowStockBefore(p, q) == p.stock < q.stock

\* _to_low_stock_read.
LowStockBadge(p) == IF p.stock <= 0 THEN "out_of_stock" ELSE "low_stock"

\* get_reorder_eligible_products: an override of 0 counts as none.
ReorderDue(p) ==
  /\ ~p.deleted
  /\ p.stock <= IF p.override # Unset /\ p.override # 0 THEN p.override ELSE p.point

=============================================================================
