----------------------------- MODULE MCServices -----------------------------
(* The services that share no state (but the choice made in Cache between the  *)
(* login limit and the tokens) in one instance.  Each runs alone: what the     *)
(* others do in between cannot matter to it.  StockLevels and Reports have no  *)
(* state: what is proved of them is evaluated here for small numbers.          *)
EXTENDS LoginLimit, Tokens, Users, ProductEdits, LedgerPages, StockLevels, Reports

VARIABLE part

MCInit ==
  /\ part \in {"limit", "tokens", "users", "edits", "pages"}
  /\ CacheInit /\ LimitInit /\ TokenInit /\ EditInit
  /\ part \notin {"limit", "tokens"} => reliable
  /\ IF part = "users" THEN UserInit
     ELSE /\ overlap = FALSE
          /\ user = [u \in Emails |-> Absent]
          /\ request = [c \in Requests |-> Waiting]
  /\ PageInit /\ (part # "pages" => entries = {})

MCNext ==
  \/ /\ part = "limit" /\ LimitNext
     /\ UNCHANGED <<part, tokenVars, userVars, editVars, pageVars>>
  \/ /\ part = "tokens" /\ TokenNext
     /\ UNCHANGED <<part, limitVars, userVars, editVars, pageVars>>
  \/ /\ part = "users" /\ UserNext
     /\ UNCHANGED <<part, reliable, limitVars, tokenVars, editVars, pageVars>>
  \/ /\ part = "edits" /\ EditNext
     /\ UNCHANGED <<part, reliable, limitVars, tokenVars, userVars, pageVars>>
  \/ /\ part = "pages" /\ PageNext
     /\ UNCHANGED <<part, reliable, limitVars, tokenVars, userVars, editVars>>

MCSpec ==
  /\ MCInit
  /\ [][MCNext]_<<part, reliable, limitVars, tokenVars, userVars, editVars, pageVars>>
  /\ LimitFairness

\* What CatalogueProofs proves of StockLevels and Reports, for small numbers.
SmallStocked ==
  [stock : -1 .. 3, point : 0 .. 2, override : {Unset} \cup 0 .. 2, deleted : BOOLEAN]
SmallHistory ==
  [orders : {0, 1}, onTime : {0, 1}, lines : {0, 20}, defects : {0, 20}, tier : Tiers \cup {Missing}]
SmallSupplier == [tier : Tiers, locked : BOOLEAN, good : 0 .. 3, bad : 0 .. 2]
SmallRate == [num : 0 .. 3, den : 1 .. 3]

ASSUME StockLevelsAgree ==
  \A p \in SmallStocked :
    /\ p.stock >= 0 /\ ~p.deleted => \A badge \in Badges : WithBadge(p, badge) <=> Badge(p) = badge
    /\ LowStock(p) <=> ~p.deleted /\ Badge(p) # "in_stock"
    /\ LowStock(p) => LowStockBadge(p) = Badge(p)
    /\ ReorderDue(p) <=> LowStock(p)

ASSUME ReportsAgree ==
  /\ \A sup \in SmallSupplier, backorder, onTime \in SmallRate, lines \in {0, 20} :
       LET new == Decide(sup, backorder, onTime)
           month(tier) == [orders |-> 1, onTime |-> 1, lines |-> lines, defects |-> 0, tier |-> tier]
           row == SummaryRow(1, month(new.tier), month(sup.tier), new)
       IN /\ row.direction # "None" => new.good = 0 /\ new.bad = 0
          /\ SupplierRows(<<month(sup.tier), month(new.tier)>>, new)[2].reason.months = 0
  /\ \A h \in SmallHistory : h.onTime <= h.orders /\ h.defects <= h.lines =>
       RatingOf(h) = Raw(Rate(h.onTime, h.orders), Rate(h.defects, h.lines))

=============================================================================
